---- MODULE Spec2Model ----
(***************************************************************************)
(* Model of the mp3tag ID3v2 tag engine: the tag parser (readID3v2,        *)
(* readFrames, Frame.read), the TagData frame catalog (reallocateFrame,    *)
(* allocateFrame, removeFrame, realignFrames, checkFooter) and the         *)
(* write-back path (writeToFile / save) over a byte-addressable file.      *)
(***************************************************************************)
EXTENDS Integers, Sequences, FiniteSets, TLC

(***************************************************************************)
(* Byte buffers.  A Node Buffer is modelled as a run-length encoded byte   *)
(* string: a sequence of runs [b |-> byte, n |-> count], n > 0, where      *)
(* adjacent runs hold different bytes (canonical form, so that equality of *)
(* the model values is byte-for-byte equality of the buffers).  The        *)
(* encoding lets a file carry a megabyte of audio.                         *)
(***************************************************************************)
\* concatenation of two canonical buffers: the runs meeting at the seam merge
BCat(s, t) ==
  IF s = <<>> THEN t
  ELSE IF t = <<>> THEN s
  ELSE IF s[Len(s)].b = t[1].b
  THEN SubSeq(s, 1, Len(s) - 1) \o <<[b |-> t[1].b, n |-> s[Len(s)].n + t[1].n]>> \o Tail(t)
  ELSE s \o t

\* canonical form of a sequence of runs (by halves)
RECURSIVE BNorm(_)
BNorm(s) ==
  IF s = <<>> THEN <<>>
  ELSE IF Len(s) = 1 THEN (IF s[1].n = 0 THEN <<>> ELSE s)
  ELSE LET h == Len(s) \div 2 IN
       BCat(BNorm(SubSeq(s, 1, h)), BNorm(SubSeq(s, h + 1, Len(s))))

\* buffer.length
RECURSIVE BLen(_)
BLen(s) ==
  IF s = <<>> THEN 0
  ELSE IF Len(s) = 1 THEN s[1].n
  ELSE LET h == Len(s) \div 2 IN BLen(SubSeq(s, 1, h)) + BLen(SubSeq(s, h + 1, Len(s)))

\* buffer.slice(k)
RECURSIVE BDrop(_, _)
BDrop(s, k) ==
  IF k <= 0 \/ s = <<>> THEN s
  ELSE IF Len(s) = 1
  THEN (IF s[1].n <= k THEN <<>> ELSE <<[b |-> s[1].b, n |-> s[1].n - k]>>)
  ELSE LET h == Len(s) \div 2
           left == SubSeq(s, 1, h)
           right == SubSeq(s, h + 1, Len(s))
       IN IF k >= BLen(left) THEN BDrop(right, k - BLen(left)) ELSE BDrop(left, k) \o right

\* buffer.slice(0, k)
RECURSIVE BTake(_, _)
BTake(s, k) ==
  IF k <= 0 \/ s = <<>> THEN <<>>
  ELSE IF Len(s) = 1
  THEN (IF s[1].n <= k THEN s ELSE <<[b |-> s[1].b, n |-> k]>>)
  ELSE LET h == Len(s) \div 2
           left == SubSeq(s, 1, h)
           right == SubSeq(s, h + 1, Len(s))
       IN IF k >= BLen(left) THEN left \o BTake(right, k - BLen(left)) ELSE BTake(left, k)

\* buffer.slice(from, from + len), 0-based
BSlice(s, from, len) == BTake(BDrop(s, from), len)

\* buffer[i], 0-based
BAt(s, i) == BDrop(s, i)[1].b

\* Buffer.alloc(n, byte)
BFill(byte, n) == IF n <= 0 THEN <<>> ELSE <<[b |-> byte, n |-> n]>>

\* a buffer holding the given bytes
BBytes(bytes) == BNorm([i \in 1..Len(bytes) |-> [b |-> bytes[i], n |-> 1]])

\* buffer.readUInt32BE(off) / buffer.readUInt16BE(off)
readUInt32BE(s, off) ==
  BAt(s, off) * 16777216 + BAt(s, off + 1) * 65536 + BAt(s, off + 2) * 256 + BAt(s, off + 3)

readUInt16BE(s, off) == BAt(s, off) * 256 + BAt(s, off + 1)

\* buffer.writeUInt32BE(x) / buffer.writeUInt16BE(x) as four / two bytes
UInt32BE(x) ==
  <<(x \div 16777216) % 256, (x \div 65536) % 256, (x \div 256) % 256, x % 256>>

UInt16BE(x) == <<(x \div 256) % 256, x % 256>>

\* buffer.toString('ascii', off, off + len): the ascii decoder clears bit 7
AsciiString(s, off, len) == [i \in 1..len |-> BAt(s, off + i - 1) % 128]

\* variant: the value is stored as it is, in groups of eight bits
encodeUInt7BitPlain(x) == x

(***************************************************************************)
(* encoding.js: 28-bit synsafe integers                                    *)
(***************************************************************************)
decodeUInt7Bit(x) ==
  (x % 128) + ((x \div 256) % 128) * 128 + ((x \div 65536) % 128) * 16384
            + ((x \div 16777216) % 128) * 2097152

encodeUInt7Bit(x) ==
  (x % 128) + ((x \div 128) % 128) * 256 + ((x \div 16384) % 128) * 65536
            + ((x \div 2097152) % 128) * 16777216

(***************************************************************************)
(* Constants of the format                                                 *)
(***************************************************************************)
TAG_HEADER_SIZE == 10
TAG_FOOTER_SIZE == 10
HEADER_SIZE == 10

HasBit(flagsByte, bit) == (flagsByte \div bit) % 2 = 1
ClearBit(flagsByte, bit) == IF HasBit(flagsByte, bit) THEN flagsByte - bit ELSE flagsByte

FOOTER_FLAG == 16
EXTENDED_HEADER_FLAG == 64

(***************************************************************************)
(* frame.js: Frame                                                         *)
(***************************************************************************)
\* new Frame(id, pos, size, data, flags): padding = false
Frame(id, pos, size, data, fl) ==
  [id |-> id, pos |-> pos, size |-> size, data |-> data, flags |-> fl, padding |-> FALSE]

\* Frame.paddingFrame(pos, size)
paddingFrame(pos, size) ==
  [id |-> <<0, 0, 0, 0>>, pos |-> pos, size |-> size, data |-> <<>>, flags |-> 0,
   padding |-> TRUE]

\* Frame.allocate(id, buffer)
FrameAllocate(id, buffer) == Frame(id, 0, BLen(buffer), buffer, 0)

\* Frame.getPadding()
FrameGetPadding(fr) ==
  IF fr.padding THEN [offset |-> fr.pos, size |-> fr.size]
  ELSE [offset |-> fr.pos + fr.size, size |-> 0]

\* Frame.read(file, mediaStart) at file position pos of a file with content f.
\* Result: [ok, frame, pos] with the file position after the call.
FrameRead(f, pos, mediaStart) ==
  IF pos >= BLen(f)
  THEN [ok |-> FALSE, err |-> "Can't read initial byte of frame header"]
  ELSE IF BAt(f, pos) = 0
  THEN [ok |-> TRUE, frame |-> paddingFrame(pos, mediaStart - pos), pos |-> mediaStart]
  ELSE IF BLen(f) - (pos + 1) < HEADER_SIZE - 1
  THEN [ok |-> FALSE, err |-> "Can't read ID3 frame header!"]
  ELSE LET id   == AsciiString(f, pos, 4)
           size == readUInt32BE(f, pos + 4)
           fl   == readUInt16BE(f, pos + 8)
           dpos == pos + HEADER_SIZE
       IN IF size # 0 /\ BLen(f) - dpos < size
          THEN [ok |-> FALSE, err |-> "File end reached"]
          ELSE [ok |-> TRUE, frame |-> Frame(id, dpos, size, BSlice(f, dpos, size), fl),
                pos |-> dpos + size]

(***************************************************************************)
(* mp3tag: readFrames, getPadding, readID3v2                               *)
(***************************************************************************)
RECURSIVE readFrames(_, _, _, _)
readFrames(f, pos, tagSize, acc) ==
  IF ~(pos < tagSize) THEN [ok |-> TRUE, frames |-> acc]
  ELSE LET r == FrameRead(f, pos, tagSize) IN
       IF ~r.ok THEN r
       ELSE readFrames(f, r.pos, tagSize, Append(acc, r.frame))

\* new DataSource(sourceFile, offset, size) with size undefined: the rest of the file
DataSource(fileSize, offset) == [offset |-> offset, size |-> fileSize - offset]

\* new TagData(file, version, flags, size, frames, padding, audioData)
TagData(version, fl, size, frs, pad, audio) ==
  [version |-> version, flags |-> fl, size |-> size, frames |-> frs, padding |-> pad,
   audioData |-> audio, rewrite |-> FALSE, dirty |-> FALSE,
   hasFooter |-> (version.major >= 4 /\ HasBit(fl, FOOTER_FLAG))]

\* variant: the audio region of a file without tag starts after ten bytes
noHeaderSkippingHeader(fileSize) ==
  TagData([major |-> 3, minor |-> 0], 0, TAG_HEADER_SIZE, <<>>,
          [offset |-> TAG_HEADER_SIZE, size |-> 0], DataSource(fileSize, TAG_HEADER_SIZE))

\* TagData.noHeader(audioFile)
noHeader(fileSize) ==
  TagData([major |-> 3, minor |-> 0], 0, TAG_HEADER_SIZE, <<>>,
          [offset |-> TAG_HEADER_SIZE, size |-> 0], DataSource(fileSize, 0))

\* getPadding(frames): throws on an empty list (lastFrame is undefined)
getPadding(frs) == FrameGetPadding(frs[Len(frs)])

\* readID3v2(path) on a file with content f.  Result [ok, tag] or [ok, err].
readID3v2(f) ==
  IF BLen(f) < TAG_HEADER_SIZE
  THEN [ok |-> FALSE, err |-> "Can't read ID3 tag header!"]
  ELSE
  LET marker       == AsciiString(f, 0, 3)
      majorVersion == BAt(f, 3)
      minorVersion == BAt(f, 4)
      fl           == BAt(f, 5)
      headerSize0  == decodeUInt7Bit(readUInt32BE(f, 6)) + TAG_HEADER_SIZE
      footer       == majorVersion = 4 /\ HasBit(fl, FOOTER_FLAG)
      headerSize   == IF footer THEN headerSize0 + TAG_FOOTER_SIZE ELSE headerSize0
  IN
  IF marker # <<73, 68, 51>> THEN [ok |-> TRUE, tag |-> noHeader(BLen(f))]
  ELSE IF majorVersion # 4 /\ majorVersion # 3
  THEN [ok |-> FALSE, err |-> "Unsupported ID3 version"]
  ELSE IF HasBit(fl, EXTENDED_HEADER_FLAG)
  THEN [ok |-> FALSE, err |-> "No support for extended header yet!"]
  ELSE
  LET r == readFrames(f, TAG_HEADER_SIZE, headerSize, <<>>) IN
  IF ~r.ok THEN r
  ELSE IF r.frames = <<>>
  THEN [ok |-> FALSE, err |-> "Cannot read property getPadding of undefined"]
  ELSE [ok |-> TRUE,
        tag |-> TagData([major |-> majorVersion, minor |-> minorVersion], fl, headerSize,
                        SelectSeq(r.frames, LAMBDA fr : ~fr.padding),
                        getPadding(r.frames),
                        DataSource(BLen(f), headerSize))]

(***************************************************************************)
(* tagdata.js: lookup and mutation of the frame catalog.  A TagData is a   *)
(* record t of its fields; every method is an operator from the record     *)
(* before the call to the record after it.                                 *)
(***************************************************************************)
NoFrame == 0

\* index of the first frame with the given id (_.find), NoFrame if there is none
getFrame(t, id) ==
  IF \E i \in 1..Len(t.frames) : t.frames[i].id = id
  THEN CHOOSE i \in 1..Len(t.frames) :
         /\ t.frames[i].id = id
         /\ \A j \in 1..(i - 1) : t.frames[j].id # id
  ELSE NoFrame

\* all frames with the given id, in order (_.filter)
getFrames(t, id) == SelectSeq(t.frames, LAMBDA fr : fr.id = id)

\* `undefined`: a value no buffer equals (a run of length 0 occurs in no buffer)
Undefined == <<[n |-> 0, b |-> 0]>>

getFrameBuffer(t, id) ==
  IF getFrame(t, id) = NoFrame THEN Undefined ELSE t.frames[getFrame(t, id)].data

getFrameBuffers(t, id) ==
  [i \in 1..Len(getFrames(t, id)) |-> getFrames(t, id)[i].data]

\* position after the first k frames when laid out from the tag header on
RECURSIVE EndOfFrames(_, _)
EndOfFrames(frs, k) ==
  IF k = 0 THEN TAG_HEADER_SIZE
  ELSE EndOfFrames(frs, k - 1) + HEADER_SIZE + frs[k].size

\* variant: the frames are laid out without room for their headers
realignFramesWithoutHeaders(t) ==
  LET pos == EndOfFrames(t.frames, Len(t.frames)) - HEADER_SIZE * Len(t.frames)
      size == t.padding.size - (pos - t.padding.offset)
  IN [t EXCEPT !.frames = [i \in 1..Len(t.frames) |->
                             [t.frames[i] EXCEPT !.pos = EndOfFrames(t.frames, i - 1)
                                                          - HEADER_SIZE * (i - 1)]],
               !.dirty = TRUE,
               !.padding = [offset |-> pos, size |-> IF size < 0 THEN 0 ELSE size],
               !.size = IF size < 0 THEN @ - size ELSE @,
               !.rewrite = IF size < 0 THEN TRUE ELSE @]

\* variant: the frames are moved, the padding descriptor stays as it is
realignFramesKeepingPadding(t) ==
  [t EXCEPT !.frames = [i \in 1..Len(t.frames) |->
                          [t.frames[i] EXCEPT !.pos = EndOfFrames(t.frames, i - 1)
                                                       + HEADER_SIZE]],
            !.dirty = TRUE]

\* variant: a tag that outgrows its padding is not marked for a rewrite
realignFramesWithoutRewrite(t) ==
  LET pos == EndOfFrames(t.frames, Len(t.frames))
      size == t.padding.size - (pos - t.padding.offset)
  IN [t EXCEPT !.frames = [i \in 1..Len(t.frames) |->
                             [t.frames[i] EXCEPT !.pos = EndOfFrames(t.frames, i - 1)
                                                          + HEADER_SIZE]],
               !.dirty = TRUE,
               !.padding = [offset |-> pos, size |-> IF size < 0 THEN 0 ELSE size],
               !.size = IF size < 0 THEN @ - size ELSE @]

realignFrames(t) ==
  LET frs == [i \in 1..Len(t.frames) |->
                [t.frames[i] EXCEPT !.pos = EndOfFrames(t.frames, i - 1) + HEADER_SIZE]]
      pos == EndOfFrames(t.frames, Len(t.frames))
      paddingDelta == pos - t.padding.offset
      offset == t.padding.offset + paddingDelta
      size == t.padding.size - paddingDelta
  IN IF size < 0
     THEN [t EXCEPT !.frames = frs, !.dirty = TRUE,
                    !.padding = [offset |-> offset, size |-> 0],
                    !.size = @ + size * (-1), !.rewrite = TRUE]
     ELSE [t EXCEPT !.frames = frs, !.dirty = TRUE,
                    !.padding = [offset |-> offset, size |-> size]]

\* variant: the new frame is inserted as the first frame
allocateFrameAtFront(t, id, buffer) ==
  realignFrames([t EXCEPT !.frames = <<FrameAllocate(id, buffer)>> \o @])

allocateFrame(t, id, buffer) ==
  realignFrames([t EXCEPT !.frames = Append(@, FrameAllocate(id, buffer))])

\* Frame.setBuffer(buffer)
setBuffer(fr, buffer) == [fr EXCEPT !.data = buffer, !.size = BLen(buffer)]

\* variant: a payload of the same length counts as the same payload
reallocateFrameBySize(t, id, buffer) ==
  LET i == getFrame(t, id) IN
  IF i = NoFrame THEN allocateFrame(t, id, buffer)
  ELSE IF t.frames[i].size = BLen(buffer) THEN t
  ELSE [realignFrames([t EXCEPT !.frames[i] = setBuffer(@, buffer)]) EXCEPT !.dirty = TRUE]

\* variant: the tag is marked dirty even if the payload is the one already stored
reallocateFrameAlwaysDirty(t, id, buffer) ==
  LET i == getFrame(t, id) IN
  IF i = NoFrame THEN allocateFrame(t, id, buffer)
  ELSE IF t.frames[i].data = buffer THEN [t EXCEPT !.dirty = TRUE]
  ELSE LET size == t.frames[i].size
           t1 == [t EXCEPT !.frames[i] = setBuffer(@, buffer)]
           t2 == IF t1.frames[i].size # size THEN realignFrames(t1) ELSE t1
       IN [t2 EXCEPT !.dirty = TRUE]

reallocateFrame(t, id, buffer) ==
  LET i == getFrame(t, id) IN
  IF i = NoFrame THEN allocateFrame(t, id, buffer)
  ELSE IF t.frames[i].data = buffer THEN t
  ELSE LET size == t.frames[i].size
           t1 == [t EXCEPT !.frames[i] = setBuffer(@, buffer)]
           t2 == IF t1.frames[i].size # size THEN realignFrames(t1) ELSE t1
       IN [t2 EXCEPT !.dirty = TRUE]

setFrameBuffer(t, id, buffer) == reallocateFrame(t, id, buffer)

removeFrame(t, id) ==
  realignFrames([t EXCEPT !.frames = SelectSeq(@, LAMBDA fr : fr.id # id)])

\* variant: the footer is kept whatever the padding is
checkFooterKeepingFooter(t) == t

checkFooter(t) ==
  IF t.hasFooter /\ t.padding.size > 0
  THEN [t EXCEPT !.hasFooter = FALSE,
                 !.padding.size = @ + TAG_FOOTER_SIZE,
                 !.flags = ClearBit(@, FOOTER_FLAG)]
  ELSE t

getContentSize(t) ==
  IF t.hasFooter THEN t.size - TAG_HEADER_SIZE - TAG_FOOTER_SIZE
  ELSE t.size - TAG_HEADER_SIZE

\* the ten bytes writeTagHeader / writeTagFooter put into their buffer
TagHeaderBytes(t) ==
  BBytes(<<73, 68, 51, t.version.major, t.version.minor, t.flags>>
         \o UInt32BE(encodeUInt7Bit(getContentSize(t))))

TagFooterBytes(t) ==
  BBytes(<<51, 68, 73, t.version.major, t.version.minor, t.flags>>
         \o UInt32BE(encodeUInt7Bit(getContentSize(t))))

\* the ten bytes Frame.write puts into headerBuffer
FrameHeaderBytes(fr) == BBytes(fr.id \o UInt32BE(fr.size) \o UInt16BE(fr.flags))

\* fs.write(fd, buffer, 0, buffer.length, position): a write past the end of the
\* file leaves a hole of zero bytes
FileWrite(content, position, buffer) ==
  LET head == IF position <= BLen(content) THEN BTake(content, position)
              ELSE BCat(content, BFill(0, position - BLen(content)))
  IN BCat(BCat(head, buffer), BDrop(content, position + BLen(buffer)))

(***************************************************************************)
(* Inputs of the model                                                     *)
(***************************************************************************)
MaxEdits == 2
MaxSaves == 2

TALB == <<84, 65, 76, 66>>
TIT2 == <<84, 73, 84, 50>>
FrameIds == {TALB, TIT2}

\* frame payloads: P2 and Q2 are stored in the source files; the calls set a payload
\* of two bytes and one of six bytes
P2 == BBytes(<<1, 65>>)
Q2 == BBytes(<<1, 66>>)
P6 == BBytes(<<1, 67, 68, 69, 70, 71>>)
Payloads == {Q2, P6}

\* audio streams: a short one of distinct bytes, and one of a mebibyte and three bytes
ShortAudio == BBytes(<<255, 251, 144, 100, 33>>)
LongAudio == BCat(BFill(170, 1048576), BBytes(<<7, 8, 9>>))

RawFrame(id, payload) == BCat(BBytes(id \o UInt32BE(BLen(payload)) \o <<0, 0>>), payload)
RawHeader(magic, major, fl, contentSize) ==
  BBytes(magic \o <<major, 0, fl>> \o UInt32BE(encodeUInt7Bit(contentSize)))
ID3 == <<73, 68, 51>>
IDE == <<51, 68, 73>>

RECURSIVE BConcat(_)
BConcat(parts) == IF parts = <<>> THEN <<>> ELSE BCat(parts[1], BConcat(Tail(parts)))

\* the source files the tag is read from
FileTagless  == BCat(BBytes(<<77, 80, 51, 45, 97, 117, 100>>), ShortAudio)
FileV3Pad    == BConcat(<<RawHeader(ID3, 3, 0, 16), RawFrame(TALB, P2), BFill(0, 4), ShortAudio>>)
FileV4NoPad  == BConcat(<<RawHeader(ID3, 4, 0, 24), RawFrame(TALB, Q2), RawFrame(TALB, P2),
                          ShortAudio>>)
FileV4FootPad == BConcat(<<RawHeader(ID3, 4, 16, 14), RawFrame(TALB, P2), BFill(0, 2),
                           RawHeader(IDE, 4, 16, 14), ShortAudio>>)
FileV4Foot   == BConcat(<<RawHeader(ID3, 4, 16, 12), RawFrame(TALB, P2),
                          RawHeader(IDE, 4, 16, 12), LongAudio>>)
FileV4FootShort == BConcat(<<RawHeader(ID3, 4, 16, 12), RawFrame(TALB, P2),
                             RawHeader(IDE, 4, 16, 12), ShortAudio>>)
FileV3Empty  == BCat(RawHeader(ID3, 3, 0, 0), ShortAudio)
FileShort    == BBytes(<<77, 80, 51>>)
FileV2       == BConcat(<<RawHeader(ID3, 2, 0, 12), RawFrame(TALB, P2), ShortAudio>>)

SourceFiles == {FileTagless, FileV3Pad, FileV4NoPad, FileV4FootPad, FileV4Foot,
                FileV4FootShort, FileV3Empty, FileShort, FileV2}

\* the path the tag was read from, and another path
SourcePath == "in.mp3"
OtherPath == "out.mp3"
Paths == {SourcePath, OtherPath}

(***************************************************************************)
(* State                                                                   *)
(***************************************************************************)
VARIABLES
  fs,       \* the file system: path -> content (empty for a file that does not exist)
  tag,      \* the TagData object (a record of its fields)
  pc,       \* where the current writeToFile call is suspended; "idle" between calls
  sv,       \* locals of the current writeToFile call: path, sameFile, audioData, file.pos, frame index
  wlog,     \* the writes of the current (or the last) writeToFile call, in order
  pre,      \* tag and file system when the current (or the last) writeToFile call was made
  clean,    \* tag at load or at the last successful save into the source file
  last,     \* the last API call and how it ended
  written,  \* frame id -> the payload last set through setFrameBuffer / removeFrame
  nEdits, nSaves,
  rt,       \* the round trip read - writeToBuffer - read: its stage and its results
  cv,       \* a codec call: the function, its argument and its results so far
  sourceFile \* the content of the source file when the tag was read from it

vars == <<fs, tag, pc, sv, wlog, pre, clean, last, written, nEdits, nSaves, rt, cv,
          sourceFile>>

NoTag == [version |-> [major |-> 0, minor |-> 0], flags |-> 0, size |-> 0, frames |-> <<>>,
          padding |-> [offset |-> 0, size |-> 0], audioData |-> [offset |-> 0, size |-> 0],
          rewrite |-> FALSE, dirty |-> FALSE, hasFooter |-> FALSE]

NoCall == [path |-> "", sameFile |-> FALSE, loaded |-> FALSE, audio |-> <<>>, mode |-> "",
           pos |-> 0, i |-> 0]

NoRoundTrip == [stage |-> "none"]

NoCodec == [fn |-> "none"]

\* no mutating call has named the id yet (again no buffer)
Unknown == <<[n |-> 0, b |-> 1]>>

\* the user-visible content of a tag
Logical(t) == [frames |-> t.frames, padding |-> t.padding, size |-> t.size, flags |-> t.flags,
               hasFooter |-> t.hasFooter]

Init ==
  \E f \in SourceFiles :
    /\ fs = [p \in Paths |-> IF p = SourcePath THEN f ELSE <<>>]
    /\ tag = IF readID3v2(f).ok THEN readID3v2(f).tag ELSE NoTag
    /\ pc = IF readID3v2(f).ok THEN "idle" ELSE "parseError"
    /\ sv = NoCall
    /\ wlog = <<>>
    /\ pre = [tag |-> tag, fs |-> fs]
    /\ clean = Logical(tag)
    /\ last = [name |-> "readHeader", ret |-> IF readID3v2(f).ok THEN "ok" ELSE "error"]
    /\ written = [id \in FrameIds |-> Unknown]
    /\ nEdits = 0
    /\ nSaves = 0
    /\ rt = NoRoundTrip
    /\ cv = NoCodec
    /\ sourceFile = f

(***************************************************************************)
(* Frame catalog calls                                                     *)
(***************************************************************************)
SetFrameBuffer(id, buffer) ==
  /\ pc = "idle"
  /\ nEdits < MaxEdits
  /\ tag' = setFrameBuffer(tag, id, buffer)
  /\ written' = [written EXCEPT ![id] = buffer]
  /\ last' = [name |-> "setFrameBuffer", id |-> id, buffer |-> buffer, ret |-> "ok",
              same |-> (getFrameBuffer(tag, id) = buffer)]
  /\ nEdits' = nEdits + 1
  /\ UNCHANGED <<fs, pc, sv, wlog, pre, clean, nSaves, rt, cv, sourceFile>>

RemoveFrame(id) ==
  /\ pc = "idle"
  /\ nEdits < MaxEdits
  /\ tag' = removeFrame(tag, id)
  /\ written' = [written EXCEPT ![id] = Undefined]
  /\ last' = [name |-> "removeFrame", id |-> id, ret |-> "ok"]
  /\ nEdits' = nEdits + 1
  /\ UNCHANGED <<fs, pc, sv, wlog, pre, clean, nSaves, rt, cv, sourceFile>>

(***************************************************************************)
(* writeToFile(path); save() is writeToFile(this.file.name).  The call     *)
(* runs up to its first await, and then from one awaited I/O operation to  *)
(* the next.                                                               *)
(***************************************************************************)
Logged(kind, position, buffer) == [kind |-> kind, at |-> position, data |-> buffer]

\* file.write(buffer) on the open destination: the write and the cursor after it
FileWriteAtCursor(kind, buffer) ==
  /\ fs' = [fs EXCEPT ![sv.path] = FileWrite(@, sv.pos, buffer)]
  /\ wlog' = Append(wlog, Logged(kind, sv.pos, buffer))

\* the call before this one was a save into the source file, and it returned
AfterSave ==
  /\ last.name = "writeToFile"
  /\ last.path = SourcePath
  /\ last.ret \in {"ok", "nothing to do"}

\* writeToFile(path) up to the first await
WriteToFile(path) ==
  /\ pc = "idle"
  /\ nSaves < MaxSaves
  /\ nSaves' = nSaves + 1
  /\ pre' = [tag |-> tag, fs |-> fs]
  /\ wlog' = <<>>
  /\ LET sameFile == (path = SourcePath) IN
     IF sameFile /\ ~tag.dirty
     THEN /\ pc' = "idle"
          /\ sv' = NoCall
          /\ last' = [name |-> "writeToFile", path |-> path, ret |-> "nothing to do",
                      afterSave |-> AfterSave]
     ELSE /\ pc' = IF sameFile /\ ~tag.rewrite THEN "open" ELSE "load"
          /\ sv' = [NoCall EXCEPT !.path = path, !.sameFile = sameFile]
          /\ last' = [name |-> "writeToFile", path |-> path, ret |-> "pending",
                      afterSave |-> AfterSave]
  /\ UNCHANGED <<fs, tag, clean, written, nEdits, rt, cv, sourceFile>>

\* getAudioData: await this.audioData.toData(), a readSlice of the source file
LoadAudio ==
  /\ pc = "load"
  /\ LET have == BLen(fs[SourcePath]) - tag.audioData.offset IN
     IF tag.audioData.size # 0 /\ have < tag.audioData.size
     THEN /\ pc' = "failed"
          /\ last' = [last EXCEPT !.ret = "error"]
          /\ sv' = sv
     ELSE /\ pc' = "open"
          /\ last' = last
          /\ sv' = [sv EXCEPT !.loaded = TRUE,
                              !.audio = BSlice(fs[SourcePath], tag.audioData.offset,
                                               tag.audioData.size)]
  /\ UNCHANGED <<fs, tag, wlog, pre, clean, written, nEdits, nSaves, rt, cv, sourceFile>>

\* variant: the destination keeps its content whenever no rewrite is pending,
\* whichever file it is
OpenModeIgnoringPath(sameFile, rewrite) == IF ~rewrite THEN "a" ELSE "w"

\* the mode writeToFile opens the destination with
OpenMode(sameFile, rewrite) == IF sameFile /\ ~rewrite THEN "a" ELSE "w"

\* File.open(path, fmode): "w" truncates, "a" (opened as "r+") keeps the content
OpenFile ==
  /\ pc = "open"
  /\ LET fmode == OpenMode(sv.sameFile, tag.rewrite) IN
     /\ fs' = IF fmode = "w" THEN [fs EXCEPT ![sv.path] = <<>>] ELSE fs
     /\ sv' = [sv EXCEPT !.mode = fmode, !.pos = 0]
  /\ pc' = "header"
  /\ UNCHANGED <<tag, wlog, pre, clean, last, written, nEdits, nSaves, rt, cv, sourceFile>>

\* writeTagHeader(file): checkFooter, then the write of the ten header bytes
WriteTagHeader ==
  /\ pc = "header"
  /\ tag' = checkFooter(tag)
  /\ FileWriteAtCursor("header", TagHeaderBytes(tag'))
  /\ sv' = [sv EXCEPT !.pos = @ + TAG_HEADER_SIZE, !.i = 1]
  /\ pc' = IF tag.frames = <<>> THEN "padding" ELSE "frameHeader"
  /\ UNCHANGED <<pre, clean, last, written, nEdits, nSaves, rt, cv, sourceFile>>

\* variant: the seek goes to the start of the payload, not of the frame header
WriteFrameHeaderAtPayload ==
  /\ pc = "frameHeader"
  /\ LET fr == tag.frames[sv.i]
         position == fr.pos
     IN /\ fs' = [fs EXCEPT ![sv.path] = FileWrite(@, position, FrameHeaderBytes(fr))]
        /\ wlog' = Append(wlog, Logged("frameHeader", position, FrameHeaderBytes(fr)))
        /\ sv' = [sv EXCEPT !.pos = position + HEADER_SIZE]
  /\ pc' = "frameData"
  /\ UNCHANGED <<tag, pre, clean, last, written, nEdits, nSaves, rt, cv, sourceFile>>

\* Frame.write(file): seek to pos - headerSize, write the frame header
WriteFrameHeader ==
  /\ pc = "frameHeader"
  /\ LET fr == tag.frames[sv.i]
         position == fr.pos - HEADER_SIZE
     IN /\ fs' = [fs EXCEPT ![sv.path] = FileWrite(@, position, FrameHeaderBytes(fr))]
        /\ wlog' = Append(wlog, Logged("frameHeader", position, FrameHeaderBytes(fr)))
        /\ sv' = [sv EXCEPT !.pos = position + HEADER_SIZE]
  /\ pc' = "frameData"
  /\ UNCHANGED <<tag, pre, clean, last, written, nEdits, nSaves, rt, cv, sourceFile>>

\* Frame.write(file): write the frame data
WriteFrameData ==
  /\ pc = "frameData"
  /\ FileWriteAtCursor("frameData", tag.frames[sv.i].data)
  /\ sv' = [sv EXCEPT !.pos = @ + BLen(tag.frames[sv.i].data), !.i = @ + 1]
  /\ pc' = IF sv.i < Len(tag.frames) THEN "frameHeader" ELSE "padding"
  /\ UNCHANGED <<tag, pre, clean, last, written, nEdits, nSaves, rt, cv, sourceFile>>

\* variant: the footer step is left out after the padding
WritePaddingSkippingFooter ==
  /\ pc = "padding"
  /\ FileWriteAtCursor("padding", BFill(0, tag.padding.size))
  /\ sv' = [sv EXCEPT !.pos = @ + tag.padding.size]
  /\ pc' = "audio"
  /\ UNCHANGED <<tag, pre, clean, last, written, nEdits, nSaves, rt, cv, sourceFile>>

\* the padding: Buffer.alloc(this.padding.size, 0x00)
WritePadding ==
  /\ pc = "padding"
  /\ FileWriteAtCursor("padding", BFill(0, tag.padding.size))
  /\ sv' = [sv EXCEPT !.pos = @ + tag.padding.size]
  /\ pc' = "footer"
  /\ UNCHANGED <<tag, pre, clean, last, written, nEdits, nSaves, rt, cv, sourceFile>>

\* writeTagFooter(file): checkFooter; nothing is written without a footer
WriteTagFooter ==
  /\ pc = "footer"
  /\ tag' = checkFooter(tag)
  /\ IF tag'.hasFooter
     THEN /\ FileWriteAtCursor("footer", TagFooterBytes(tag'))
          /\ sv' = [sv EXCEPT !.pos = @ + TAG_FOOTER_SIZE]
     ELSE UNCHANGED <<fs, wlog, sv>>
  /\ pc' = "audio"
  /\ UNCHANGED <<pre, clean, last, written, nEdits, nSaves, rt, cv, sourceFile>>

\* variant: dirty is not reset after the source file has been updated
WriteAudioKeepingDirty ==
  /\ pc = "audio"
  /\ IF sv.loaded
     THEN /\ FileWriteAtCursor("audio", sv.audio)
          /\ sv' = [sv EXCEPT !.pos = @ + BLen(sv.audio)]
     ELSE UNCHANGED <<fs, wlog, sv>>
  /\ tag' = tag
  /\ clean' = IF sv.sameFile THEN Logical(tag) ELSE clean
  /\ last' = [last EXCEPT !.ret = "ok"]
  /\ pc' = "idle"
  /\ UNCHANGED <<pre, written, nEdits, nSaves, rt, cv, sourceFile>>

\* audioData.writeToFile(file), file.close(), and the reset of dirty
WriteAudio ==
  /\ pc = "audio"
  /\ IF sv.loaded
     THEN /\ FileWriteAtCursor("audio", sv.audio)
          /\ sv' = [sv EXCEPT !.pos = @ + BLen(sv.audio)]
     ELSE UNCHANGED <<fs, wlog, sv>>
  /\ tag' = IF sv.sameFile THEN [tag EXCEPT !.dirty = FALSE] ELSE tag
  /\ clean' = IF sv.sameFile THEN Logical(tag) ELSE clean
  /\ last' = [last EXCEPT !.ret = "ok"]
  /\ pc' = "idle"
  /\ UNCHANGED <<pre, written, nEdits, nSaves, rt, cv, sourceFile>>

\* the awaited open, read or write fails: the promise of writeToFile rejects.
\* writeTagHeader and writeTagFooter have run checkFooter before their write.
IOError ==
  /\ \/ pc \in {"load", "open", "frameHeader", "frameData", "padding"}
     \/ pc = "header"
     \/ pc = "footer" /\ checkFooter(tag).hasFooter
     \/ pc = "audio" /\ sv.loaded
  /\ tag' = IF pc \in {"header", "footer"} THEN checkFooter(tag) ELSE tag
  /\ pc' = "failed"
  /\ last' = [last EXCEPT !.ret = "error"]
  /\ UNCHANGED <<fs, sv, wlog, pre, clean, written, nEdits, nSaves, rt, cv, sourceFile>>

Next ==
  \/ \E id \in FrameIds, buffer \in Payloads : SetFrameBuffer(id, buffer)
  \/ \E id \in FrameIds : RemoveFrame(id)
  \/ \E path \in Paths : WriteToFile(path)
  \/ LoadAudio
  \/ OpenFile
  \/ WriteTagHeader
  \/ WriteFrameHeader
  \/ WriteFrameData
  \/ WritePadding
  \/ WriteTagFooter
  \/ WriteAudio
  \/ IOError

Spec == Init /\ [][Next]_vars

(***************************************************************************)
(* The round trip read - writeToBuffer - read (tagdata.js with             *)
(* writeToBuffer / __writeIntoFile).  BufferFile is taken from             *)
(* bufferFile.js.                                                          *)
(***************************************************************************)
getFileSize(t) ==
  IF t.hasFooter THEN t.size + TAG_FOOTER_SIZE + t.audioData.size
  ELSE t.size + t.audioData.size

\* BufferFile.writeSlice at position pos of a BufferFile that is in state f
BufferFileWrite(f, pos, buffer) ==
  IF ~f.ok \/ pos + BLen(buffer) > BLen(f.buffer) THEN [ok |-> FALSE, buffer |-> f.buffer, pos |-> pos]
  ELSE [ok |-> TRUE, buffer |-> FileWrite(f.buffer, pos, buffer), pos |-> pos + BLen(buffer)]

\* frame.write(file) for the frames from the i-th on: seek, frame header, frame data
RECURSIVE WriteFrames(_, _, _)
WriteFrames(f, frs, i) ==
  IF i > Len(frs) THEN f
  ELSE LET h == BufferFileWrite(f, frs[i].pos - HEADER_SIZE, FrameHeaderBytes(frs[i]))
       IN WriteFrames(BufferFileWrite(h, h.pos, frs[i].data), frs, i + 1)

\* __writeIntoFile(file, false): audio loaded, seek(0), header, frames, padding,
\* footer if hasFooter, audio
writeIntoFile(t, f, audio) ==
  LET h == BufferFileWrite(f, 0, TagHeaderBytes(t))
      fr == WriteFrames(h, t.frames, 1)
      pad == BufferFileWrite(fr, fr.pos, BFill(0, t.padding.size))
      foot == IF t.hasFooter THEN BufferFileWrite(pad, pad.pos, TagFooterBytes(t)) ELSE pad
  IN BufferFileWrite(foot, foot.pos, audio)

\* writeToBuffer(): Buffer.alloc(getFileSize()), then __writeIntoFile
writeToBuffer(t, source) ==
  LET f == [ok |-> TRUE, buffer |-> BFill(0, getFileSize(t)), pos |-> 0]
      audio == BSlice(source, t.audioData.offset, t.audioData.size)
  IN IF t.audioData.size # 0 /\ BLen(audio) < t.audioData.size
     THEN [ok |-> FALSE, buffer |-> f.buffer, pos |-> 0]
     ELSE writeIntoFile(t, f, audio)

\* the files of the round trip: a tag of version 2.3 or 2.4 with up to MaxFrames
\* frames, with or without padding, with or without footer, and the audio
MaxFrames == 2
SourcePayloads == {P2, Q2, P6}
SourceFrames == {<<id, payload>> : id \in FrameIds, payload \in SourcePayloads}
FrameLists ==
  UNION {[1..n -> SourceFrames] : n \in 0..MaxFrames}
Paddings == {0, 4}
Audios == {ShortAudio, LongAudio}

TagFile(major, frs, pad, footer, audio) ==
  LET body == BCat(BConcat([i \in 1..Len(frs) |-> RawFrame(frs[i][1], frs[i][2])]),
                   BFill(0, pad))
      fl == IF footer THEN FOOTER_FLAG ELSE 0
  IN BConcat(<<RawHeader(ID3, major, fl, BLen(body)), body,
               IF footer THEN RawHeader(IDE, major, fl, BLen(body)) ELSE <<>>,
               audio>>)

\* what the format allows: one frame or more, padding or footer but not both, a
\* footer in version 2.4 only
ValidTagFile(major, frs, pad, footer) ==
  /\ frs # <<>>
  /\ footer => major = 4 /\ pad = 0

\* files without a tag: the first n bytes of a byte string that does not start
\* with "ID3", for every n up to MaxPlainLen
MaxPlainLen == 12
PlainBytes == BConcat(<<FileTagless, ShortAudio, LongAudio>>)
PlainFiles == {BTake(PlainBytes, n) : n \in 0..MaxPlainLen}

InitRoundTrip ==
  /\ \/ \E major \in {3, 4}, frs \in FrameLists, pad \in Paddings, footer \in BOOLEAN,
           audio \in Audios :
          /\ footer => major = 4
          /\ fs = [p \in Paths |-> IF p = SourcePath
                                   THEN TagFile(major, frs, pad, footer, audio) ELSE <<>>]
          /\ rt = [stage |-> "file", valid |-> ValidTagFile(major, frs, pad, footer),
                   footer |-> footer]
     \/ \E f \in PlainFiles :
          /\ fs = [p \in Paths |-> IF p = SourcePath THEN f ELSE <<>>]
          /\ rt = [stage |-> "file", valid |-> FALSE, footer |-> FALSE]
  /\ tag = NoTag
  /\ pc = "roundTrip"
  /\ sv = NoCall
  /\ wlog = <<>>
  /\ pre = [tag |-> NoTag, fs |-> fs]
  /\ clean = Logical(NoTag)
  /\ last = [name |-> "none", ret |-> "ok"]
  /\ written = [id \in FrameIds |-> Unknown]
  /\ nEdits = 0
  /\ nSaves = 0
  /\ cv = NoCodec
  /\ sourceFile = fs[SourcePath]

\* readHeader / readID3v2 on the source file
ReadTag ==
  /\ rt.stage = "file"
  /\ LET r == readID3v2(fs[SourcePath]) IN
     IF r.ok
     THEN /\ tag' = r.tag
          /\ rt' = [rt EXCEPT !.stage = "parsed"]
     ELSE /\ tag' = tag
          /\ rt' = [rt EXCEPT !.stage = "parseError"]
  /\ UNCHANGED <<fs, pc, sv, wlog, pre, clean, last, written, nEdits, nSaves, cv, sourceFile>>

\* writeToBuffer() on the unmodified TagData
WriteToBuffer ==
  /\ rt.stage = "parsed"
  /\ LET r == writeToBuffer(tag, fs[SourcePath]) IN
     IF r.ok
     THEN rt' = [stage |-> "written", valid |-> rt.valid, footer |-> rt.footer,
                 buffer |-> r.buffer]
     ELSE rt' = [rt EXCEPT !.stage = "writeError"]
  /\ UNCHANGED <<fs, tag, pc, sv, wlog, pre, clean, last, written, nEdits, nSaves, cv, sourceFile>>

\* readID3v2 on the buffer
ReadBack ==
  /\ rt.stage = "written"
  /\ LET r == readID3v2(rt.buffer) IN
     IF r.ok
     THEN rt' = [stage |-> "done", valid |-> rt.valid, footer |-> rt.footer,
                 buffer |-> rt.buffer, back |-> r.tag]
     ELSE rt' = [rt EXCEPT !.stage = "backError"]
  /\ UNCHANGED <<fs, tag, pc, sv, wlog, pre, clean, last, written, nEdits, nSaves, cv, sourceFile>>

NextRoundTrip ==
  \/ ReadTag
  \/ WriteToBuffer
  \/ ReadBack

SpecRoundTrip == InitRoundTrip /\ [][NextRoundTrip]_vars

(***************************************************************************)
(* Decoder (src/unnamed/part_005) and its code pages (src/unnamed/part_003)*)
(* A string is the sequence of its UTF-16 code units, a Buffer here the    *)
(* sequence of its bytes; reading past the end of a Buffer gives undefined *)
(***************************************************************************)
UndefinedByte == -1
ByteAt(buffer, c) == IF c >= 0 /\ c < Len(buffer) THEN buffer[c + 1] ELSE UndefinedByte
subarray(buffer, start, end) ==
  LET e == IF end > Len(buffer) THEN Len(buffer) ELSE end
      b == IF start > e THEN e ELSE start
  IN SubSeq(buffer, b + 1, e)

IsHighSurrogate(u) == u >= 55296 /\ u <= 56319
IsLowSurrogate(u) == u >= 56320 /\ u <= 57343
ReplacementChar == 65533

\* Buffer.from(string, 'utf16le')
RECURSIVE toUTF_16LE(_)
toUTF_16LE(string) ==
  IF string = <<>> THEN <<>>
  ELSE <<string[1] % 256, string[1] \div 256>> \o toUTF_16LE(Tail(string))

\* Buffer.from(string, 'utf8'): a surrogate pair is one code point of four
\* bytes, an unpaired surrogate is written as U+FFFD
RECURSIVE toUTF_8(_)
toUTF_8(string) ==
  IF string = <<>> THEN <<>>
  ELSE LET u == string[1] IN
       IF u < 128 THEN <<u>> \o toUTF_8(Tail(string))
       ELSE IF u < 2048 THEN <<192 + (u \div 64), 128 + (u % 64)>> \o toUTF_8(Tail(string))
       ELSE IF IsHighSurrogate(u) /\ Len(string) >= 2 /\ IsLowSurrogate(string[2])
       THEN LET c == 65536 + (u - 55296) * 1024 + (string[2] - 56320) IN
            <<240 + (c \div 262144), 128 + ((c \div 4096) % 64), 128 + ((c \div 64) % 64),
              128 + (c % 64)>> \o toUTF_8(Tail(Tail(string)))
       ELSE IF IsHighSurrogate(u) \/ IsLowSurrogate(u)
       THEN <<239, 191, 189>> \o toUTF_8(Tail(string))
       ELSE <<224 + (u \div 4096), 128 + ((u \div 64) % 64), 128 + (u % 64)>>
              \o toUTF_8(Tail(string))

\* Buffer.from(string, 'latin1'): the low byte of every code unit
toISO_8895_1(string) == [i \in 1..Len(string) |-> string[i] % 256]

\* the ISO-8895-1 decoder: String.fromCharCode of every byte
fromISO_8895_1(buffer) == buffer

\* buffer.toString('utf16le'): an odd last byte is dropped
fromUTF_16LE(buffer) ==
  [i \in 1..(Len(buffer) \div 2) |-> buffer[2 * i - 1] + 256 * buffer[2 * i]]

\* the UTF-16BE decoder: swaps the bytes of every pair, then decodes UTF-16LE
\* (the partner of an odd last byte is a zero of the allocated buffer)
fromUTF_16BE(buffer) ==
  LET bufferLE == [c \in 1..Len(buffer) |->
                     IF c % 2 = 1 THEN (IF c + 1 <= Len(buffer) THEN buffer[c + 1] ELSE 0)
                     ELSE buffer[c - 1]]
  IN fromUTF_16LE(bufferLE)

IsContinuation(b) == b >= 128 /\ b <= 191

\* buffer.toString('utf8'): a byte that starts no complete sequence is U+FFFD
RECURSIVE fromUTF_8(_)
fromUTF_8(buffer) ==
  IF buffer = <<>> THEN <<>>
  ELSE LET b == buffer[1]
           c1 == ByteAt(buffer, 1)
           c2 == ByteAt(buffer, 2)
           c3 == ByteAt(buffer, 3)
       IN
       IF b < 128 THEN <<b>> \o fromUTF_8(Tail(buffer))
       ELSE IF b >= 194 /\ b <= 223 /\ IsContinuation(c1)
       THEN <<(b - 192) * 64 + (c1 - 128)>> \o fromUTF_8(subarray(buffer, 2, Len(buffer)))
       ELSE IF b >= 224 /\ b <= 239 /\ IsContinuation(c1) /\ IsContinuation(c2)
               /\ (b - 224) * 4096 + (c1 - 128) * 64 >= 2048
               /\ ~IsHighSurrogate((b - 224) * 4096 + (c1 - 128) * 64)
               /\ ~IsLowSurrogate((b - 224) * 4096 + (c1 - 128) * 64)
       THEN <<(b - 224) * 4096 + (c1 - 128) * 64 + (c2 - 128)>>
              \o fromUTF_8(subarray(buffer, 3, Len(buffer)))
       ELSE IF b >= 240 /\ b <= 244 /\ IsContinuation(c1) /\ IsContinuation(c2)
               /\ IsContinuation(c3)
               /\ (b - 240) * 262144 + (c1 - 128) * 4096 >= 65536
               /\ (b - 240) * 262144 + (c1 - 128) * 4096 < 1114112
       THEN LET c == (b - 240) * 262144 + (c1 - 128) * 4096 + (c2 - 128) * 64 + (c3 - 128)
            IN <<55296 + ((c - 65536) \div 1024), 56320 + ((c - 65536) % 1024)>>
                 \o fromUTF_8(subarray(buffer, 4, Len(buffer)))
       ELSE <<ReplacementChar>> \o fromUTF_8(Tail(buffer))

\* cp.decodeBuffer(buffer, encoding)
cpDecodeBuffer(buffer, encoding) ==
  CASE encoding = "ISO-8895-1" -> fromISO_8895_1(buffer)
    [] encoding = "UTF-16LE" -> fromUTF_16LE(buffer)
    [] encoding = "UTF-16BE" -> fromUTF_16BE(buffer)
    [] encoding = "UTF-8" -> fromUTF_8(buffer)

\* cp.encodeString(string, encoding)
cpEncodeString(string, encoding) ==
  CASE encoding = "ISO-8895-1" -> toISO_8895_1(string)
    [] encoding = "UTF-16LE" -> toUTF_16LE(string)
    [] encoding = "UTF-8" -> toUTF_8(string)

\* class Encoding and its five static instances; an encoding without an
\* encoding byte has UndefinedByte there
Encoding(name, bom, dbe, encodingByte) ==
  [name |-> name, bom |-> bom, dbe |-> dbe, encodingByte |-> encodingByte]
ISO_8895_1 == Encoding("ISO-8895-1", <<>>, FALSE, 0)
UTF_16_LE_BOM == Encoding("UTF-16LE", <<255, 254>>, TRUE, 1)
UTF_16_BE_BOM == Encoding("UTF-16BE", <<254, 255>>, TRUE, UndefinedByte)
UTF_8_BOM == Encoding("UTF-8", <<239, 187, 191>>, FALSE, UndefinedByte)
UTF_8 == Encoding("UTF-8", <<>>, FALSE, 3)

UCEncodings == <<UTF_16_LE_BOM, UTF_16_BE_BOM, UTF_8_BOM, UTF_8>>

DEFAULT_ENCODINGS(version) == IF version = 3 THEN UTF_16_LE_BOM ELSE UTF_8

NoEncoding == Encoding("none", <<>>, FALSE, UndefinedByte)

HasBom(buffer, encoding) ==
  \A c \in 1..Len(encoding.bom) : ByteAt(buffer, c - 1) = encoding.bom[c]

\* Decoder.getBufferEncoding; ok is FALSE where the code throws
getBufferEncoding(version, buffer, encodingByte) ==
  LET byte == IF encodingByte = UndefinedByte THEN 1 ELSE encodingByte IN
  IF byte = 0 THEN [ok |-> TRUE, encoding |-> ISO_8895_1]
  ELSE IF byte = 1
  THEN [ok |-> TRUE,
        encoding |-> UCEncodings[CHOOSE i \in 1..Len(UCEncodings) :
                                   /\ HasBom(buffer, UCEncodings[i])
                                   /\ \A j \in 1..(i - 1) : ~HasBom(buffer, UCEncodings[j])]]
  ELSE IF version >= 4 /\ byte = 2
  THEN [ok |-> TRUE, encoding |-> Encoding("UTF-16BE", <<>>, TRUE, UndefinedByte)]
  ELSE IF version >= 4 /\ byte = 3
  THEN [ok |-> TRUE, encoding |-> Encoding("UTF-8", <<>>, FALSE, UndefinedByte)]
  ELSE [ok |-> FALSE, encoding |-> NoEncoding]

\* internal.decodeString
internalDecodeString(version, buffer, encodingByte) ==
  LET e == getBufferEncoding(version, buffer, encodingByte) IN
  IF e.ok
  THEN [ok |-> TRUE,
        string |-> cpDecodeBuffer(subarray(buffer, Len(e.encoding.bom), Len(buffer)),
                                  e.encoding.name)]
  ELSE [ok |-> FALSE, string |-> <<>>]

\* internal.getStringEndPos: the loop from position c on
RECURSIVE getStringEndPosFrom(_, _, _)
getStringEndPosFrom(buffer, isDoubleNull, c) ==
  IF c >= Len(buffer) THEN -1
  ELSE IF ByteAt(buffer, c) = 0 /\ ~isDoubleNull THEN c
  ELSE IF ByteAt(buffer, c) = 0 /\ ByteAt(buffer, c + 1) = 0 /\ isDoubleNull THEN c
  ELSE getStringEndPosFrom(buffer, isDoubleNull, IF isDoubleNull THEN c + 2 ELSE c + 1)

\* variant: in double-byte mode every index is tried, not every second one
getStringEndPosEveryByte(buffer, isDoubleNull) ==
  LET hits == {c \in 0..(Len(buffer) - 1) :
                 /\ ByteAt(buffer, c) = 0
                 /\ isDoubleNull => ByteAt(buffer, c + 1) = 0}
  IN IF hits = {} THEN -1 ELSE CHOOSE c \in hits : \A d \in hits : c <= d

getStringEndPos(buffer, isDoubleNull) == getStringEndPosFrom(buffer, isDoubleNull, 0)

\* internal.decodeCString
internalDecodeCString(version, buffer, encodingByte) ==
  LET e == getBufferEncoding(version, buffer, encodingByte)
      nullPos == getStringEndPos(buffer, e.encoding.dbe)
  IN
  IF ~e.ok \/ nullPos = -1
  THEN [ok |-> FALSE, string |-> <<>>, nullPos |-> -1, pastNullPos |-> -1]
  ELSE [ok |-> TRUE,
        string |-> cpDecodeBuffer(subarray(buffer, Len(e.encoding.bom), nullPos),
                                  e.encoding.name),
        nullPos |-> nullPos,
        pastNullPos |-> nullPos + (IF e.encoding.dbe THEN 2 ELSE 1)]

\* variant: the byte order mark is left out of the encoded string
internalEncodeStringWithoutBom(string, encoding) == cpEncodeString(string, encoding.name)

\* internal.encodeString
internalEncodeString(string, encoding) ==
  encoding.bom \o cpEncodeString(string, encoding.name)

\* internal.encodeCString
internalEncodeCString(string, encoding) == internalEncodeString(string \o <<0>>, encoding)

\* shifting a 32-bit integer left by eight bits and or-ing a byte into it
ShiftLeft8Or(result, byte) ==
  LET low == result % 16777216 IN
  (IF low >= 8388608 THEN low - 16777216 ELSE low) * 256 + byte

\* internal.decodeNumberBE: the loop from position c on
RECURSIVE decodeNumberBEFrom(_, _, _, _)
decodeNumberBEFrom(buffer, c, end, result) ==
  IF c >= end THEN result
  ELSE decodeNumberBEFrom(buffer, c + 1, end, ShiftLeft8Or(result, ByteAt(buffer, c)))

decodeNumberBE(buffer, offset, bytes) == decodeNumberBEFrom(buffer, offset, offset + bytes, 0)

\* Decoder.decodeString
decodeString(version, buffer) == internalDecodeString(version, subarray(buffer, 1, Len(buffer)),
                                                      ByteAt(buffer, 0))

\* Decoder.encodeString
encodeString(version, string) ==
  <<DEFAULT_ENCODINGS(version).encodingByte>>
    \o internalEncodeString(string, DEFAULT_ENCODINGS(version))

\* buffer.toString('ascii', start, end)
toStringAscii(buffer, start, end) ==
  LET s == subarray(buffer, start, end) IN [i \in 1..Len(s) |-> s[i] % 128]

\* string.substring(0, 3).padEnd(3)
Space == 32
substring3padEnd3(string) ==
  [i \in 1..3 |-> IF i <= Len(string) THEN string[i] ELSE Space]

\* Decoder.decodeComment
decodeComment(version, buffer) ==
  LET encodingByte == ByteAt(buffer, 0)
      language == toStringAscii(buffer, 1, 4)
      data == subarray(buffer, 4, Len(buffer))
      cData == internalDecodeCString(version, data, encodingByte)
      long == internalDecodeString(version, subarray(data, cData.pastNullPos, Len(data)),
                                   UndefinedByte)
  IN
  IF ~getBufferEncoding(version, data, encodingByte).ok \/ ~cData.ok
  THEN [ok |-> FALSE, language |-> <<>>, short |-> <<>>, long |-> <<>>]
  ELSE [ok |-> TRUE, language |-> language, short |-> cData.string, long |-> long.string]

\* Decoder.encodeComment
encodeComment(version, comment) ==
  LET encoding == DEFAULT_ENCODINGS(version) IN
  <<encoding.encodingByte>>
    \o toISO_8895_1(substring3padEnd3(comment.language))
    \o internalEncodeCString(comment.short, encoding)
    \o internalEncodeString(comment.long, encoding)

\* Decoder.decodePopularity
decodePopularity(version, buffer) ==
  LET email == internalDecodeCString(version, buffer, 0)
      offset == email.pastNullPos + 1
  IN
  IF ~email.ok THEN [ok |-> FALSE, email |-> <<>>, rating |-> UndefinedByte, playCount |-> 0]
  ELSE [ok |-> TRUE, email |-> email.string, rating |-> ByteAt(buffer, email.pastNullPos),
        playCount |-> decodeNumberBE(buffer, offset, Len(buffer) - offset)]

(***************************************************************************)
(* Codec calls: a pure function is applied to an argument drawn in Init,   *)
(* and its inverse to the result                                           *)
(***************************************************************************)
\* tag and frame sizes: every combination of these values of the four 7-bit groups
SynsafeGroups == {0, 1, 2, 64, 127}
SynsafeInputs == {a + 128 * b + 16384 * c + 2097152 * d :
                    a \in SynsafeGroups, b \in SynsafeGroups,
                    c \in SynsafeGroups, d \in SynsafeGroups}

\* strings: every sequence of at most n of the given code units
StringsOver(units, n) == UNION {[1..k -> units] : k \in 0..n}

\* 'a', 'ä', '€', the two halves of U+1F600, U+FEFF and NUL
StringUnits == {97, 228, 8364, 55357, 56832, 65279, 0}
MaxStringLen == 3
Versions == {3, 4}

\* comments: 'a', '€', U+FEFF and NUL in the texts; the languages "", "en",
\* "eng", "engl" and "än"
CommentUnits == {97, 8364, 65279, 0}
MaxCommentLen == 2
Languages == {<<>>, <<101, 110>>, <<101, 110, 103>>, <<101, 110, 103, 108>>, <<228, 110>>}
Comments == [language : Languages, short : StringsOver(CommentUnits, MaxCommentLen),
             long : StringsOver(CommentUnits, MaxCommentLen)]

\* payloads of a POPM frame: the email, NUL, the rating, and a play counter
\* of at most MaxCounterLen bytes
Emails == {<<>>, <<97>>}
Ratings == {0, 255}
CounterBytes == {0, 1, 128, 255}
MaxCounterLen == 5
Popularities == [email : Emails, rating : Ratings,
                 counter : StringsOver(CounterBytes, MaxCounterLen)]
PopularityBuffer(p) == toISO_8895_1(p.email) \o <<0, p.rating>> \o p.counter

\* payloads of a COMM frame as they are found in files: the encoding byte,
\* the language "eng", the short text with its terminator and the long text,
\* both in the encoding the byte names (0x01: UTF-16LE behind a BOM)
toUTF_16BE(string) ==
  [i \in 1..(2 * Len(string)) |->
     IF i % 2 = 1 THEN string[(i + 1) \div 2] \div 256 ELSE string[i \div 2] % 256]
EncodedAs(encodingByte, string) ==
  CASE encodingByte = 0 -> toISO_8895_1(string)
    [] encodingByte = 1 -> <<255, 254>> \o toUTF_16LE(string)
    [] encodingByte = 2 -> toUTF_16BE(string)
    [] encodingByte = 3 -> toUTF_8(string)
EncodingBytes == {0, 1, 2, 3}
Latin1Units == {97, 228}
CommentPayloads ==
  [encodingByte : EncodingBytes, short : StringsOver(Latin1Units, MaxCommentLen),
   long : StringsOver(Latin1Units, MaxCommentLen)]
CommentBuffer(p) ==
  <<p.encodingByte, 101, 110, 103>> \o EncodedAs(p.encodingByte, p.short \o <<0>>)
    \o EncodedAs(p.encodingByte, p.long)

\* buffers to scan for a terminator: at most MaxScanLen bytes, each 0 or 'a'
MaxScanLen == 5
ScanBuffers == StringsOver({0, 97}, MaxScanLen)

CodecIdle == [fs |-> [p \in Paths |-> <<>>], tag |-> NoTag]

InitCodec ==
  /\ fs = CodecIdle.fs
  /\ tag = NoTag
  /\ pc = "codec"
  /\ sv = NoCall
  /\ wlog = <<>>
  /\ pre = [tag |-> NoTag, fs |-> fs]
  /\ clean = Logical(NoTag)
  /\ last = [name |-> "none", ret |-> "ok"]
  /\ written = [id \in FrameIds |-> Unknown]
  /\ nEdits = 0
  /\ nSaves = 0
  /\ rt = NoRoundTrip
  /\ sourceFile = <<>>
  /\ \/ \E n \in SynsafeInputs : cv = [fn |-> "UInt7Bit", stage |-> "arg", arg |-> n]
     \/ \E v \in Versions, s \in StringsOver(StringUnits, MaxStringLen) :
          cv = [fn |-> "String", stage |-> "arg", version |-> v, arg |-> s]
     \/ \E v \in Versions, c \in Comments :
          cv = [fn |-> "Comment", stage |-> "arg", version |-> v, arg |-> c]
     \/ \E v \in Versions, p \in CommentPayloads :
          cv = [fn |-> "CommentBuffer", stage |-> "arg", version |-> v, arg |-> p,
                enc |-> CommentBuffer(p)]
     \/ \E b \in ScanBuffers, dbe \in BOOLEAN :
          cv = [fn |-> "CString", stage |-> "arg", arg |-> b, isDoubleNull |-> dbe]
     \/ \E v \in Versions, p \in Popularities :
          cv = [fn |-> "Popularity", stage |-> "arg", version |-> v, arg |-> p,
                enc |-> PopularityBuffer(p)]

\* utils.encodeUInt7Bit(n)
EncodeUInt7Bit ==
  /\ cv.fn = "UInt7Bit" /\ cv.stage = "arg"
  /\ cv' = [fn |-> "UInt7Bit", stage |-> "encoded", arg |-> cv.arg,
            enc |-> encodeUInt7Bit(cv.arg)]
  /\ UNCHANGED <<fs, tag, pc, sv, wlog, pre, clean, last, written, nEdits, nSaves, rt, sourceFile>>

\* utils.decodeUInt7Bit of the encoded value
DecodeUInt7Bit ==
  /\ cv.fn = "UInt7Bit" /\ cv.stage = "encoded"
  /\ cv' = [fn |-> "UInt7Bit", stage |-> "decoded", arg |-> cv.arg, enc |-> cv.enc,
            dec |-> decodeUInt7Bit(cv.enc)]
  /\ UNCHANGED <<fs, tag, pc, sv, wlog, pre, clean, last, written, nEdits, nSaves, rt, sourceFile>>

\* new Decoder(version).encodeString(string)
EncodeString ==
  /\ cv.fn = "String" /\ cv.stage = "arg"
  /\ cv' = [fn |-> "String", stage |-> "encoded", version |-> cv.version, arg |-> cv.arg,
            enc |-> encodeString(cv.version, cv.arg)]
  /\ UNCHANGED <<fs, tag, pc, sv, wlog, pre, clean, last, written, nEdits, nSaves, rt, sourceFile>>

\* decoder.decodeString of the encoded buffer
DecodeString ==
  /\ cv.fn = "String" /\ cv.stage = "encoded"
  /\ cv' = [fn |-> "String", stage |-> "decoded", version |-> cv.version, arg |-> cv.arg,
            enc |-> cv.enc, dec |-> decodeString(cv.version, cv.enc)]
  /\ UNCHANGED <<fs, tag, pc, sv, wlog, pre, clean, last, written, nEdits, nSaves, rt, sourceFile>>

\* new Decoder(version).encodeComment(comment)
EncodeComment ==
  /\ cv.fn = "Comment" /\ cv.stage = "arg"
  /\ cv' = [fn |-> "Comment", stage |-> "encoded", version |-> cv.version, arg |-> cv.arg,
            enc |-> encodeComment(cv.version, cv.arg)]
  /\ UNCHANGED <<fs, tag, pc, sv, wlog, pre, clean, last, written, nEdits, nSaves, rt, sourceFile>>

\* decoder.decodeComment of the encoded buffer
DecodeComment ==
  /\ cv.fn = "Comment" /\ cv.stage = "encoded"
  /\ cv' = [fn |-> "Comment", stage |-> "decoded", version |-> cv.version, arg |-> cv.arg,
            enc |-> cv.enc, dec |-> decodeComment(cv.version, cv.enc)]
  /\ UNCHANGED <<fs, tag, pc, sv, wlog, pre, clean, last, written, nEdits, nSaves, rt, sourceFile>>

\* new Decoder(version).decodePopularity(buffer)
DecodePopularity ==
  /\ cv.fn = "Popularity" /\ cv.stage = "arg"
  /\ cv' = [fn |-> "Popularity", stage |-> "decoded", version |-> cv.version,
            arg |-> cv.arg, enc |-> cv.enc, dec |-> decodePopularity(cv.version, cv.enc)]
  /\ UNCHANGED <<fs, tag, pc, sv, wlog, pre, clean, last, written, nEdits, nSaves, rt, sourceFile>>

\* new Decoder(version).decodeComment(buffer) on the payload of a COMM frame
DecodeCommentBuffer ==
  /\ cv.fn = "CommentBuffer" /\ cv.stage = "arg"
  /\ cv' = [fn |-> "CommentBuffer", stage |-> "decoded", version |-> cv.version,
            arg |-> cv.arg, enc |-> cv.enc, dec |-> decodeComment(cv.version, cv.enc)]
  /\ UNCHANGED <<fs, tag, pc, sv, wlog, pre, clean, last, written, nEdits, nSaves, rt,
                 sourceFile>>

\* internal.getStringEndPos(buffer, isDoubleNull), and internal.decodeCString of
\* a version 4 decoder on the same buffer with the encoding byte of
\* ISO-8895-1 (single-byte) or of UTF-16BE (double-byte)
DecodeCString ==
  /\ cv.fn = "CString" /\ cv.stage = "arg"
  /\ cv' = [fn |-> "CString", stage |-> "decoded", arg |-> cv.arg,
            isDoubleNull |-> cv.isDoubleNull,
            pos |-> getStringEndPos(cv.arg, cv.isDoubleNull),
            dec |-> internalDecodeCString(4, cv.arg, IF cv.isDoubleNull THEN 2 ELSE 0)]
  /\ UNCHANGED <<fs, tag, pc, sv, wlog, pre, clean, last, written, nEdits, nSaves, rt,
                 sourceFile>>

NextCodec ==
  \/ EncodeUInt7Bit
  \/ DecodeUInt7Bit
  \/ EncodeString
  \/ DecodeString
  \/ EncodeComment
  \/ DecodeComment
  \/ DecodePopularity
  \/ DecodeCommentBuffer
  \/ DecodeCString

SpecCodec == InitCodec /\ [][NextCodec]_vars

(***************************************************************************)
(* Vocabulary of the properties                                            *)
(***************************************************************************)
\* the bytes of the writes of the log, in the order of the log
RECURSIVE WrittenBytes(_)
WrittenBytes(log) ==
  IF log = <<>> THEN <<>> ELSE BCat(log[1].data, WrittenBytes(Tail(log)))

\* every write starts where the previous one ended, the first one at offset 0
Contiguous(log) ==
  \A i \in 1..Len(log) :
    log[i].at = IF i = 1 THEN 0 ELSE log[i - 1].at + BLen(log[i - 1].data)

Kinds(log) == [i \in 1..Len(log) |-> log[i].kind]

\* header and payload of every frame, in frame-list order
RECURSIVE FrameWrites(_)
FrameWrites(frs) ==
  IF frs = <<>> THEN <<>>
  ELSE <<[kind |-> "frameHeader", data |-> FrameHeaderBytes(frs[1])],
         [kind |-> "frameData", data |-> frs[1].data]>> \o FrameWrites(Tail(frs))

\* what a save of tag t has to write, in order: header, frames, padding, footer iff
\* hasFooter, audio iff it is relocated
SaveWrites(t, relocate, audio) ==
  <<[kind |-> "header", data |-> TagHeaderBytes(t)]>>
  \o FrameWrites(t.frames)
  \o <<[kind |-> "padding", data |-> BFill(0, t.padding.size)]>>
  \o (IF t.hasFooter THEN <<[kind |-> "footer", data |-> TagFooterBytes(t)]>> ELSE <<>>)
  \o (IF relocate THEN <<[kind |-> "audio", data |-> audio]>> ELSE <<>>)

Saving == pc \in {"load", "open", "header", "frameHeader", "frameData", "padding", "footer",
                  "audio"}
SaveReturned == pc = "idle" /\ last.name = "writeToFile" /\ last.ret = "ok"
SaveFailed == pc = "failed"

\* a save into the source file of a dirty tag that needs no rewrite has returned
InPlaceSaveReturned ==
  /\ SaveReturned
  /\ last.path = SourcePath
  /\ pre.tag.dirty
  /\ ~pre.tag.rewrite

(***************************************************************************)
(* C1: a save into the source file with dirty = true and rewrite = false   *)
(* opens the file without truncation, writes exactly header + frames +     *)
(* padding (+ footer), tag_end bytes in all, from offset 0 on, neither     *)
(* reads nor writes the audio, and leaves every byte at offset >= tag_end  *)
(* as it was.                                                              *)
(***************************************************************************)
C1_InPlaceSavePreservesAudio ==
  InPlaceSaveReturned =>
    /\ sv.mode = "a"
    /\ Contiguous(wlog)
    /\ [i \in 1..Len(wlog) |-> [kind |-> wlog[i].kind, data |-> wlog[i].data]]
         = SaveWrites(tag, FALSE, <<>>)
    /\ BLen(WrittenBytes(wlog)) = tag.size
    /\ ~sv.loaded
    /\ BDrop(fs[SourcePath], tag.size) = BDrop(pre.fs[SourcePath], tag.size)

\* the audio range of the source file as the tag records it
AudioRange(t, files) == BSlice(files[SourcePath], t.audioData.offset, t.audioData.size)

\* the log without the positions
LogWrites(log) == [i \in 1..Len(log) |-> [kind |-> log[i].kind, data |-> log[i].data]]

SaveStarted == last.name = "writeToFile" /\ last.ret # "nothing to do"

(***************************************************************************)
(* C3: the writes of a save are issued in the order tag header, every      *)
(* frame in frame-list order (frame header, then payload), padding.size    *)
(* zero bytes, the footer if and only if hasFooter, the audio if and only  *)
(* if it is relocated; at any moment the writes issued so far are a prefix *)
(* of that sequence, and a save that returns has issued all of it.         *)
(***************************************************************************)
C3_WriteOrder ==
  SaveStarted =>
    LET expected == SaveWrites(tag, ~(sv.sameFile /\ ~pre.tag.rewrite),
                               AudioRange(pre.tag, pre.fs))
    IN /\ Len(wlog) <= Len(expected)
       /\ LogWrites(wlog) = SubSeq(expected, 1, Len(wlog))
       /\ SaveReturned => Len(wlog) = Len(expected)

\* a save with two frames, a footer and relocated audio has returned
C3_Witness ==
  /\ SaveReturned
  /\ Len(tag.frames) >= 2
  /\ tag.hasFooter
  /\ sv.loaded
  /\ Kinds(wlog) = <<"header", "frameHeader", "frameData", "frameHeader", "frameData",
                     "padding", "footer", "audio">>

(***************************************************************************)
(* C4: reads reflect the mutations made before them.  After                *)
(* setFrameBuffer(id, b), getFrameBuffer(id) is b; after removeFrame(id),  *)
(* getFrameBuffer(id) is undefined and getFrameBuffers(id) is empty; calls *)
(* on other ids in between change neither.                                 *)
(***************************************************************************)
C4_ReadsReflectMutations ==
  \A id \in FrameIds :
    /\ written[id] = Undefined =>
         /\ getFrameBuffer(tag, id) = Undefined
         /\ getFrameBuffers(tag, id) = <<>>
    /\ written[id] \in Payloads => getFrameBuffer(tag, id) = written[id]

\* TALB, which the source file holds, was set and then removed, or removed, with a
\* call on TIT2 after it
C4_Witness ==
  /\ clean.frames # <<>>
  /\ written[TALB] = Undefined
  /\ written[TIT2] \in Payloads
  /\ last.name = "setFrameBuffer" /\ last.id = TIT2
  /\ getFrameBuffer(tag, TIT2) = written[TIT2]
  /\ getFrameBuffers(tag, TALB) = <<>>

(***************************************************************************)
(* C5: save() is idempotent.  A save into the source file that returns     *)
(* leaves dirty false, and a save() that follows it immediately returns    *)
(* without opening, reading or writing a file and without touching the     *)
(* tag.                                                                    *)
(***************************************************************************)
C5_SaveIdempotent ==
  /\ (SaveReturned /\ last.path = SourcePath) => ~tag.dirty
  /\ (last.name = "writeToFile" /\ last.path = SourcePath /\ last.afterSave) =>
       /\ last.ret = "nothing to do"
       /\ pc = "idle"
       /\ sv = NoCall
       /\ wlog = <<>>
       /\ fs = pre.fs
       /\ tag = pre.tag

\* a save() right after the save() that wrote a new TIT2 frame
C5_Witness ==
  /\ last.name = "writeToFile" /\ last.path = SourcePath /\ last.afterSave
  /\ last.ret = "nothing to do"
  /\ written[TIT2] \in Payloads
  /\ getFrameBuffer(tag, TIT2) = written[TIT2]
  /\ clean = Logical(tag)

\* what C6 calls the content: ids, order and payloads of the frames, padding, tag_end
\* and flags
Content(l) ==
  [frames |-> [i \in 1..Len(l.frames) |-> [id |-> l.frames[i].id, data |-> l.frames[i].data]],
   padding |-> l.padding, size |-> l.size, flags |-> l.flags]

(***************************************************************************)
(* C6: dirty is sound.  In every reachable state in which the frame list   *)
(* (ids, order, payloads), the padding, tag_end or the flags differ from   *)
(* what they were at load or at the last save into the source file, dirty  *)
(* is true.                                                                *)
(***************************************************************************)
C6_DirtyIsSound ==
  (pc # "parseError" /\ Content(Logical(tag)) # Content(clean)) => tag.dirty

(***************************************************************************)
(* C7: a writeToFile whose open, read or write fails leaves flags,         *)
(* hasFooter, padding, tag_end, rewrite and the frame list as they were    *)
(* before the call, and does not clear dirty.                              *)
(***************************************************************************)
C7_FailedSaveLeavesState ==
  SaveFailed =>
    /\ tag.flags = pre.tag.flags
    /\ tag.hasFooter = pre.tag.hasFooter
    /\ tag.padding = pre.tag.padding
    /\ tag.size = pre.tag.size
    /\ tag.rewrite = pre.tag.rewrite
    /\ tag.frames = pre.tag.frames
    /\ tag.dirty = pre.tag.dirty

(***************************************************************************)
(* C9: no save emits both a footer and non-empty padding: if one or more   *)
(* padding bytes are written, no footer is written and bit 0x10 of the     *)
(* flags byte of the written header is clear; if a footer is written, the  *)
(* padding written is empty.                                               *)
(***************************************************************************)
C9_NoFooterWithPadding ==
  LET pads == {i \in 1..Len(wlog) : wlog[i].kind = "padding" /\ wlog[i].data # <<>>}
      foots == {i \in 1..Len(wlog) : wlog[i].kind = "footer"}
  IN /\ pads # {} =>
          /\ foots = {}
          /\ wlog[1].kind = "header"
          /\ ~HasBit(BAt(wlog[1].data, 5), FOOTER_FLAG)
     /\ foots # {} => \A i \in 1..Len(wlog) : wlog[i].kind = "padding" => wlog[i].data = <<>>

\* a tag loaded with a footer and padding has been saved
C9_Witness ==
  /\ SaveReturned
  /\ pre.tag.hasFooter /\ pre.tag.padding.size > 0
  /\ \E i \in 1..Len(wlog) : wlog[i].kind = "padding" /\ wlog[i].data # <<>>

(***************************************************************************)
(* C10: setFrameBuffer(id, buf) with buf byte-equal to the payload of the  *)
(* first frame with that id changes nothing: dirty, rewrite, tag_end,      *)
(* padding and every frame stay as they are.                               *)
(***************************************************************************)
C10_SameBufferIsNoOp ==
  [][ (/\ nEdits' = nEdits + 1
       /\ last'.name = "setFrameBuffer"
       /\ getFrameBuffer(tag, last'.id) = last'.buffer)
      => tag' = tag ]_vars

\* the payload already stored was set on a clean tag
C10_Witness ==
  /\ last.name = "setFrameBuffer"
  /\ last.same
  /\ ~tag.dirty /\ ~tag.rewrite
  /\ getFrameBuffer(tag, last.id) = last.buffer

\* the ordered sequence of frame id / payload pairs of a tag
Pairs(t) == [i \in 1..Len(t.frames) |-> [id |-> t.frames[i].id, data |-> t.frames[i].data]]

(***************************************************************************)
(* C8: parse / serialize round trip.  For every valid source file (version *)
(* 2.3 or 2.4, with or without padding, with or without footer) the file   *)
(* is parsed, writeToBuffer on the unmodified TagData returns a buffer,    *)
(* and parsing that buffer yields the same ordered sequence of frame id /  *)
(* payload pairs as parsing the file.                                      *)
(***************************************************************************)
C8_RoundTrip ==
  rt.valid =>
    /\ rt.stage \notin {"parseError", "writeError", "backError"}
    /\ rt.stage = "done" => Pairs(rt.back) = Pairs(tag)

\* the round trip of the valid files without footer
C8_RoundTripWithoutFooter ==
  (rt.valid /\ ~rt.footer) =>
    /\ rt.stage \notin {"parseError", "writeError", "backError"}
    /\ rt.stage = "done" => Pairs(rt.back) = Pairs(tag)

(***************************************************************************)
(* C11: removeFrame(id) when no frame has identifier id does nothing: the  *)
(* frame list, padding, tag_end, rewrite and dirty are left unchanged, so  *)
(* a clean tag stays clean and a following save() does no I/O.             *)
(***************************************************************************)
C11_RemoveMissingIsNoOp ==
  [][ (/\ nEdits' = nEdits + 1
       /\ last'.name = "removeFrame"
       /\ getFrame(tag, last'.id) = NoFrame)
      => tag' = tag ]_vars

\* identifier, payload and flags of a frame (what setFrameBuffer must leave alone in
\* the other frames; their offsets may move)
FrameView(fr) == [id |-> fr.id, data |-> fr.data, flags |-> fr.flags]

FrameViews(frs) == [j \in 1..Len(frs) |-> FrameView(frs[j])]

CountId(frs, id) == Cardinality({j \in 1..Len(frs) : frs[j].id = id})

(***************************************************************************)
(* C12: setFrameBuffer(id, b) affects at most one frame.  If a frame with  *)
(* identifier id exists, the first such frame gets payload b and size      *)
(* |b|, and the number and order of the frames stay the same; otherwise    *)
(* one frame (id, b) is appended as the last frame.  Identifier, payload   *)
(* and flags of every other frame are unchanged, and the number of frames  *)
(* with identifier id does not grow above 1 when it was 0 or 1.            *)
(***************************************************************************)
C12_SetFrameBufferOneFrame ==
  [][ (nEdits' = nEdits + 1 /\ last'.name = "setFrameBuffer") =>
      LET id == last'.id
          b == last'.buffer
          i == getFrame(tag, id)
          old == tag.frames
          new == tag'.frames
      IN /\ i # NoFrame =>
              /\ Len(new) = Len(old)
              /\ FrameView(new[i]) = [FrameView(old[i]) EXCEPT !.data = b]
              /\ new[i].size = BLen(b)
              /\ \A j \in 1..Len(old) : j # i => FrameView(new[j]) = FrameView(old[j])
                                                 /\ new[j].size = old[j].size
         /\ i = NoFrame =>
              /\ Len(new) = Len(old) + 1
              /\ FrameViews(SubSeq(new, 1, Len(old))) = FrameViews(old)
              /\ new[Len(new)].id = id
              /\ new[Len(new)].data = b
              /\ new[Len(new)].size = BLen(b)
         /\ CountId(old, id) <= 1 => CountId(new, id) = 1 ]_vars

\* TALB was set on a tag holding two TALB frames and one frame of another id was
\* appended: the first TALB frame holds the new payload, the second its old one
C12_Witness ==
  /\ last.name = "setFrameBuffer"
  /\ nEdits = 2
  /\ Len(tag.frames) = 3
  /\ FrameViews(tag.frames) =
       <<[id |-> TALB, data |-> P6, flags |-> 0], [id |-> TALB, data |-> P2, flags |-> 0],
         [id |-> TIT2, data |-> written[TIT2], flags |-> 0]>>

\* the file has three bytes or more, and its first three are not the marker "ID3"
NoMarker(f) == BLen(f) >= 3 /\ BTake(f, 3) # BBytes(ID3)

\* readHeader has returned or thrown
TagRead == rt.stage \notin {"none", "file"}

EmptyTagFile(f) ==
  /\ BLen(f) >= TAG_HEADER_SIZE
  /\ BTake(f, 3) = BBytes(ID3)
  /\ BAt(f, 3) \in {3, 4}
  /\ BAt(f, 5) = 0
  /\ decodeUInt7Bit(readUInt32BE(f, 6)) = 0

(***************************************************************************)
(* C14: parsing a file that starts with a valid version 2.3 or 2.4 header  *)
(* whose content size is 0 (no footer, no extended header) succeeds and    *)
(* yields a TagData with zero frames and padding {offset 10, size 0},      *)
(* whose audio region starts at offset 10.                                 *)
(***************************************************************************)
C14_EmptyContentParses ==
  (TagRead /\ EmptyTagFile(fs[SourcePath])) =>
    /\ rt.stage # "parseError"
    /\ tag.frames = <<>>
    /\ tag.padding = [offset |-> 10, size |-> 0]
    /\ tag.audioData.offset = 10

\* byte k (0 = lowest) of a 32-bit word, and 7-bit group k of a number
ByteOf(x, k) == (x \div (256 ^ k)) % 256
GroupOf(n, k) == (n \div (128 ^ k)) % 128

\* C15: for every n in [0, 2^28) the four bytes of encodeUInt7Bit(n) are the
\* four 7-bit groups of n with the high bit zero (257 gives 0x00000201), and
\* decodeUInt7Bit gives n back
C15_SynsafeRoundTrip ==
  (cv.fn = "UInt7Bit" /\ cv.stage \in {"encoded", "decoded"}) =>
    /\ cv.arg \in 0..(2 ^ 28 - 1)
    /\ \A k \in 0..3 : ByteOf(cv.enc, k) = GroupOf(cv.arg, k) /\ ByteOf(cv.enc, k) < 128
    /\ cv.enc \div 16777216 < 128
    /\ cv.arg = 257 => cv.enc = 513
    /\ cv.stage = "decoded" => cv.dec = cv.arg

C15_Witness ==
  /\ cv.fn = "UInt7Bit" /\ cv.stage = "decoded"
  /\ cv.arg = 127 + 128 * 127 + 16384 * 127 + 2097152 * 127
  /\ cv.enc = 2139062143
  /\ cv.dec = cv.arg

\* no surrogate code unit of the string is without its partner
WellFormed(string) ==
  \A i \in 1..Len(string) :
    /\ IsHighSurrogate(string[i]) => (i < Len(string) /\ IsLowSurrogate(string[i + 1]))
    /\ IsLowSurrogate(string[i]) => (i > 1 /\ IsHighSurrogate(string[i - 1]))

\* the bytes encodeString is to emit: [01][FF FE][code units, low byte first]
\* for v2.3, [03][UTF-8] for v2.4
StringLayout(version, string, buffer) ==
  /\ version = 3 =>
       /\ Len(buffer) = 3 + 2 * Len(string)
       /\ SubSeq(buffer, 1, 3) = <<1, 255, 254>>
       /\ \A i \in 1..Len(string) :
            buffer[2 + 2 * i] = string[i] % 256 /\ buffer[3 + 2 * i] = string[i] \div 256
  /\ version = 4 =>
       /\ buffer = <<3>> \o toUTF_8(string)
       /\ string = <<228>> => buffer = <<3, 195, 164>>
       /\ string = <<8364>> => buffer = <<3, 226, 130, 172>>
       /\ string = <<55357, 56832>> => buffer = <<3, 240, 159, 152, 128>>

\* C16 as stated: for version 3 and 4 and every string s, encodeString(s) has
\* the layout above and decodeString gives s back
C16_StringRoundTrip ==
  (cv.fn = "String" /\ cv.stage \in {"encoded", "decoded"}) =>
    /\ StringLayout(cv.version, cv.arg, cv.enc)
    /\ cv.stage = "decoded" => (cv.dec.ok /\ cv.dec.string = cv.arg)

\* C16 amended: the layout holds for every string; decodeString gives s back
\* for every string, except under version 4 a string with an unpaired
\* surrogate, which comes back with U+FFFD in its place
C16_WellFormedStringRoundTrip ==
  (cv.fn = "String" /\ cv.stage \in {"encoded", "decoded"}) =>
    /\ StringLayout(cv.version, cv.arg, cv.enc)
    /\ cv.stage = "decoded" =>
         /\ cv.dec.ok
         /\ (cv.version = 3 \/ WellFormed(cv.arg)) => cv.dec.string = cv.arg
         /\ Len(cv.dec.string) = Len(cv.arg)
         /\ \A i \in 1..Len(cv.arg) :
              cv.dec.string[i] \in {cv.arg[i], ReplacementChar}

C16_Witness ==
  /\ cv.fn = "String" /\ cv.stage = "decoded" /\ cv.version = 4
  /\ cv.arg = <<8364, 55357, 56832>>
  /\ cv.enc = <<3, 226, 130, 172, 240, 159, 152, 128>>
  /\ cv.dec.string = cv.arg

HasNul(string) == \E i \in 1..Len(string) : string[i] = 0

\* C17: for either version and every comment whose short text has no NUL,
\* decodeComment(encodeComment(c)) has the language cut or padded with spaces
\* to three characters and the same short and long text; a language of three
\* characters is unchanged and "en" comes back as "en "
C17_CommentRoundTrip ==
  (cv.fn = "Comment" /\ cv.stage = "decoded" /\ ~HasNul(cv.arg.short)) =>
    /\ cv.dec.ok
    /\ Len(cv.dec.language) = 3
    /\ cv.dec.language = substring3padEnd3(cv.arg.language)
    /\ Len(cv.arg.language) = 3 => cv.dec.language = cv.arg.language
    /\ cv.arg.language = <<101, 110>> => cv.dec.language = <<101, 110, 32>>
    /\ cv.dec.short = cv.arg.short
    /\ cv.dec.long = cv.arg.long

\* what does hold: the same for a language of ASCII characters and, under
\* version 4, a long text that does not start with U+FEFF
C17_CommentRoundTripWithoutBom ==
  (/\ cv.fn = "Comment" /\ cv.stage = "decoded" /\ ~HasNul(cv.arg.short)
   /\ \A i \in 1..Len(cv.arg.language) : cv.arg.language[i] < 128
   /\ ~(cv.version = 4 /\ cv.arg.long # <<>> /\ cv.arg.long[1] = 65279)) =>
    /\ cv.dec.ok
    /\ cv.dec.language = substring3padEnd3(cv.arg.language)
    /\ cv.dec.short = cv.arg.short
    /\ cv.dec.long = cv.arg.long

\* the bytes of a non-negative number, highest first, without leading zeros
RECURSIVE BytesBE(_)
BytesBE(n) == IF n = 0 THEN <<>> ELSE BytesBE(n \div 256) \o <<n % 256>>

RECURSIVE StripZeros(_)
StripZeros(bytes) ==
  IF bytes # <<>> /\ bytes[1] = 0 THEN StripZeros(Tail(bytes)) ELSE bytes

\* C18: the play count of decodePopularity is the unsigned big-endian value
\* of all bytes after the rating byte, for every width of the counter (0 for
\* none), also for four bytes with the first at least 0x80
C18_PlayCountUnsigned ==
  (cv.fn = "Popularity" /\ cv.stage = "decoded") =>
    /\ cv.dec.ok
    /\ cv.dec.email = cv.arg.email
    /\ cv.dec.rating = cv.arg.rating
    /\ cv.dec.playCount >= 0
    /\ BytesBE(cv.dec.playCount) = StripZeros(cv.arg.counter)

\* what does hold: the same for a counter whose value is below 2^31
C18_PlayCountBelow31Bits ==
  (/\ cv.fn = "Popularity" /\ cv.stage = "decoded"
   /\ LET c == StripZeros(cv.arg.counter) IN Len(c) < 4 \/ (Len(c) = 4 /\ c[1] < 128)) =>
    /\ cv.dec.playCount >= 0
    /\ BytesBE(cv.dec.playCount) = StripZeros(cv.arg.counter)

\* a TagData exists: the file was parsed or found to have no tag
HasTagData == pc \notin {"parseError", "codec"} /\ tag # NoTag

\* C19: after parsing and after every setFrameBuffer / removeFrame call the
\* payload of the first frame starts at 20 and the payload of every further
\* frame starts its header size (10) after the end of the payload before it
C19_FrameLayout ==
  HasTagData =>
    /\ tag.frames # <<>> => tag.frames[1].pos = 20
    /\ \A i \in 1..(Len(tag.frames) - 1) :
         tag.frames[i + 1].pos = tag.frames[i].pos + tag.frames[i].size + 10

\* two calls that moved frames: a payload of another size for the first TALB
\* frame, then a new TIT2 frame behind the two frames of the file
C19_Witness ==
  /\ HasTagData /\ nEdits = 2 /\ last.name = "setFrameBuffer"
  /\ Len(tag.frames) = 3
  /\ tag.frames[1].size = 6 /\ tag.frames[1].pos = 20
  /\ tag.frames[2].pos = 36
  /\ tag.frames[3].id = TIT2 /\ tag.frames[3].pos = 48

\* C20: in every state of a TagData the padding has a size of at least 0 and
\* starts at the end of the last frame's payload, or at 10 without frames
C20_PaddingDescriptor ==
  HasTagData =>
    /\ tag.padding.size >= 0
    /\ tag.padding.offset =
         IF tag.frames = <<>> THEN 10
         ELSE tag.frames[Len(tag.frames)].pos + tag.frames[Len(tag.frames)].size

\* the last remaining frame of a parsed tag was removed
C20_Witness ==
  /\ HasTagData /\ last.name = "removeFrame"
  /\ pre.tag.frames # <<>> /\ clean.frames # <<>>
  /\ tag.frames = <<>>
  /\ tag.padding.offset = 10 /\ tag.padding.size > 0

\* 10 + the sum over all frames of (10 + frame.size) + padding.size
RECURSIVE SumOfFrames(_)
SumOfFrames(frs) ==
  IF frs = <<>> THEN 0 ELSE HEADER_SIZE + frs[1].size + SumOfFrames(Tail(frs))

Accounted(t) == TAG_HEADER_SIZE + SumOfFrames(t.frames) + t.padding.size

\* C21: at every moment after construction, before and after edits and
\* saves, the tag's size (tag_end) is 10 + the sum over all frames of
\* (10 + frame.size) + padding.size
C21_SizeAccounting ==
  HasTagData => tag.size = Accounted(tag)

\* what does hold: the same for a tag of version 2.3, which has no footer
C21_SizeAccountingVersion3 ==
  (HasTagData /\ tag.version.major = 3) => tag.size = Accounted(tag)

\* C22: after setFrameBuffer and removeFrame (which call allocateFrame and
\* realignFrames), hasFooter implies major = 4 and padding.size = 0
C22_FooterImpliesNoPadding ==
  (HasTagData /\ last.name \in {"setFrameBuffer", "removeFrame"} /\ tag.hasFooter) =>
    (tag.version.major = 4 /\ tag.padding.size = 0)

\* C23: when setFrameBuffer grows the payload of an existing frame by g bytes
\* while padding.size = p: for g <= p the padding becomes p - g and size and
\* rewrite are unchanged; for g = p + k, k > 0, the padding becomes 0, rewrite
\* becomes true and size grows by k
C23_PaddingReflow ==
  [][ (nEdits' = nEdits + 1 /\ last'.name = "setFrameBuffer"
       /\ getFrame(tag, last'.id) # NoFrame
       /\ BLen(last'.buffer) > tag.frames[getFrame(tag, last'.id)].size) =>
      LET g == BLen(last'.buffer) - tag.frames[getFrame(tag, last'.id)].size
          p == tag.padding.size
      IN /\ g <= p => /\ tag'.padding.size = p - g
                      /\ tag'.size = tag.size
                      /\ tag'.rewrite = tag.rewrite
         /\ g > p => /\ tag'.padding.size = 0
                     /\ tag'.rewrite
                     /\ tag'.size = tag.size + (g - p) ]_vars

\* the payload of the frame of FileV3Pad grew by exactly the padding (4 bytes)
C23_Witness ==
  /\ HasTagData /\ nEdits = 1 /\ last.name = "setFrameBuffer" /\ last.buffer = P6
  /\ clean.padding.size = 4 /\ clean.frames[1].size = 2
  /\ tag.frames[1].size = 6
  /\ tag.padding.size = 0 /\ ~tag.rewrite /\ tag.size = clean.size

\* the payload of the first frame of FileV4NoPad grew by 4 bytes without padding
C23_WitnessBeyond ==
  /\ HasTagData /\ nEdits = 1 /\ last.name = "setFrameBuffer" /\ last.buffer = P6
  /\ clean.padding.size = 0 /\ Len(clean.frames) = 2
  /\ tag.padding.size = 0 /\ tag.rewrite /\ tag.size = clean.size + 4

\* a save into the source file that had to move the audio has returned
RewriteSaveReturned == SaveReturned /\ last.path = SourcePath /\ pre.tag.rewrite

\* C24: rewrite does not stay true forever: it is false after a successful
\* full-rewrite save into the source file, and false again when a later
\* setFrameBuffer / removeFrame has restored padding (padding.size > 0)
C24_RewriteIsReset ==
  /\ RewriteSaveReturned => ~tag.rewrite
  /\ (HasTagData /\ pc = "idle" /\ last.name \in {"setFrameBuffer", "removeFrame"}
        /\ tag.padding.size > 0) => ~tag.rewrite

\* the second half of C24 alone
C24_RewriteResetByPadding ==
  (HasTagData /\ pc = "idle" /\ last.name = "removeFrame" /\ tag.padding.size > 0)
    => ~tag.rewrite

\* the audio bytes of the source file as it was read
OriginalAudio ==
  BSlice(sourceFile, readID3v2(sourceFile).tag.audioData.offset,
         readID3v2(sourceFile).tag.audioData.size)

\* C25: after a save into the source file that relocated the audio, the audio
\* locator points at the new position (offset = tag_end, same size) and the
\* file holds the original audio from tag_end on, also when the save is the
\* second one after a further edit
C25_AudioFollowsRewrite ==
  RewriteSaveReturned =>
    /\ tag.audioData = [offset |-> tag.size, size |-> BLen(OriginalAudio)]
    /\ BDrop(fs[SourcePath], tag.size) = OriginalAudio

\* what does hold: after the first save of a tag of version 2.3 (no footer is
\* involved) the bytes from tag_end on are the audio
C25_AudioBytesAfterFirstRewrite ==
  (RewriteSaveReturned /\ tag.version.major = 3 /\ nSaves = 1)
    => BDrop(fs[SourcePath], tag.size) = OriginalAudio

\* a reachable state: a frame is added to the file without tag and saved, a
\* second frame is added and saved, and the file no longer ends with the audio
C25_SecondSaveLosesAudio ==
  /\ sourceFile = FileTagless /\ RewriteSaveReturned /\ nSaves = 2 /\ nEdits = 2
  /\ Len(tag.frames) = 2 /\ tag.frames[1].id = TALB /\ tag.frames[2].id = TIT2
  /\ BDrop(fs[SourcePath], tag.size) # OriginalAudio

\* C26: the writes of a save form one sequence without gap or overlap: the
\* header is written at offset 0, every frame header at frame.pos - 10, which
\* is where the write before it ended, and payload, padding, footer and audio
\* at the cursor
C26_WritesContiguous ==
  SaveStarted =>
    /\ Contiguous(wlog)
    /\ wlog # <<>> => (wlog[1].kind = "header" /\ wlog[1].at = 0)
    /\ \A i \in 1..Len(wlog) :
         wlog[i].kind = "frameHeader" =>
           \E k \in 1..Len(tag.frames) :
             /\ wlog[i].at = tag.frames[k].pos - 10
             /\ wlog[i].at = wlog[i - 1].at + BLen(wlog[i - 1].data)

\* a save after two calls that moved the frames has written three frames,
\* padding and audio
C26_Witness ==
  /\ SaveReturned /\ nEdits = 2 /\ Len(tag.frames) = 3
  /\ Kinds(wlog) = <<"header", "frameHeader", "frameData", "frameHeader", "frameData",
                     "frameHeader", "frameData", "padding", "audio">>
  /\ wlog[6].at = tag.frames[3].pos - 10
  /\ wlog[9].at = tag.size

\* the source file is a v2.4 file whose header has the footer flag set
SourceHasFooter ==
  /\ BLen(sourceFile) >= TAG_HEADER_SIZE
  /\ BTake(sourceFile, 3) = BBytes(ID3)
  /\ BAt(sourceFile, 3) = 4
  /\ HasBit(BAt(sourceFile, 5), FOOTER_FLAG)

\* C27: for a v2.4 file with the footer flag the parsed frame list holds
\* exactly the frames stored between tag header and footer (in the source
\* files with a footer: one TALB frame with payload P2); no frame reaches into
\* the footer, whose bytes are not read as a frame header
C27_FooterIsNoFrame ==
  (SourceHasFooter /\ nEdits = 0) =>
    /\ pc # "parseError"
    /\ Pairs(tag) = <<[id |-> TALB, data |-> P2]>>
    /\ \A i \in 1..Len(tag.frames) :
         tag.frames[i].pos + tag.frames[i].size <= tag.size - TAG_FOOTER_SIZE

\* what does hold: the same when padding lies between the frames and the footer
C27_FooterBehindPadding ==
  (SourceHasFooter /\ nEdits = 0 /\ sourceFile = FileV4FootPad) =>
    /\ pc # "parseError"
    /\ Pairs(tag) = <<[id |-> TALB, data |-> P2]>>

\* the number of bytes of a full write: header, frames, padding, the footer
\* if hasFooter, and the audio
FullWriteSize(t) ==
  Accounted(t) + (IF t.hasFooter THEN TAG_FOOTER_SIZE ELSE 0) + t.audioData.size

\* a TagData has been read in the round trip
RoundTripTag == pc = "roundTrip" /\ TagRead /\ rt.stage # "parseError"

\* C28: getFileSize() is the number of bytes a full write emits, for every
\* TagData, also one read from a file with a v2.4 footer; writeToBuffer fills
\* the buffer it allocates exactly, and for a tag read from a tagged file
\* getFileSize() is the length of that file, so that save() into the source
\* buffer passes its size check
C28_FileSizeExact ==
  RoundTripTag =>
    /\ getFileSize(tag) = FullWriteSize(tag)
    /\ writeToBuffer(tag, fs[SourcePath]).ok
    /\ writeToBuffer(tag, fs[SourcePath]).pos = getFileSize(tag)
    /\ ~NoMarker(fs[SourcePath]) => getFileSize(tag) = BLen(fs[SourcePath])

\* what does hold: the same for a TagData without footer
C28_FileSizeWithoutFooter ==
  (RoundTripTag /\ ~tag.hasFooter) =>
    /\ getFileSize(tag) = FullWriteSize(tag)
    /\ writeToBuffer(tag, fs[SourcePath]).ok
    /\ writeToBuffer(tag, fs[SourcePath]).pos = getFileSize(tag)
    /\ ~NoMarker(fs[SourcePath]) => getFileSize(tag) = BLen(fs[SourcePath])

\* the size check of save() alone, for a tag read with footer and padding
\* (there no footer byte is read as a frame)
C28_SizeCheckBehindPadding ==
  (RoundTripTag /\ tag.hasFooter /\ tag.padding.size > 0) =>
    getFileSize(tag) = BLen(fs[SourcePath])

\* the bytes of the long text in the payload of a COMM frame: what follows the
\* terminator of the short text
LongBytes(version, buffer) ==
  LET data == subarray(buffer, 4, Len(buffer))
  IN subarray(data, internalDecodeCString(version, data, ByteAt(buffer, 0)).pastNullPos,
              Len(data))

\* C29: decodeComment decodes the long text with the encoding that the
\* encoding byte of the payload selects for the short text: ISO-8859-1 for
\* 0x00, UTF-16BE for 0x02 and UTF-8 for 0x03 (both v2.4), and by the long
\* text's own BOM for 0x01; a payload written in that encoding gives both
\* texts back
C29_LongTextByEncodingByte ==
  (cv.fn = "CommentBuffer" /\ cv.stage = "decoded" /\ cv.dec.ok) =>
    /\ cv.dec.short = cv.arg.short
    /\ cv.dec.long =
         internalDecodeString(cv.version, LongBytes(cv.version, cv.enc),
                              cv.arg.encodingByte).string
    /\ cv.dec.long = cv.arg.long

\* what does hold: the same for the encoding bytes 0x01 and 0x03
C29_LongTextUnicode ==
  (cv.fn = "CommentBuffer" /\ cv.stage = "decoded" /\ cv.dec.ok
     /\ cv.arg.encodingByte \in {1, 3}) =>
    /\ cv.dec.short = cv.arg.short
    /\ cv.dec.long = cv.arg.long

\* the indices at which a terminator may be found
Terminators(buffer, doubleByte) ==
  IF doubleByte
  THEN {c \in 0..(Len(buffer) - 2) : c % 2 = 0 /\ buffer[c + 1] = 0 /\ buffer[c + 2] = 0}
  ELSE {c \in 0..(Len(buffer) - 1) : buffer[c + 1] = 0}

\* C30: getStringEndPos returns the smallest index of a zero byte in
\* single-byte mode and the smallest even index of two zero bytes in
\* double-byte mode, and -1 if there is none; decodeCString then fails, and
\* otherwise returns the string before the terminator and the position after it
C30_TerminatorScan ==
  (cv.fn = "CString" /\ cv.stage = "decoded") =>
    LET hits == Terminators(cv.arg, cv.isDoubleNull) IN
    /\ hits = {} => (cv.pos = -1 /\ ~cv.dec.ok)
    /\ hits # {} =>
         /\ cv.pos \in hits
         /\ \A c \in hits : cv.pos <= c
         /\ cv.dec.ok
         /\ cv.dec.nullPos = cv.pos
         /\ cv.dec.pastNullPos = cv.pos + (IF cv.isDoubleNull THEN 2 ELSE 1)
         /\ Len(cv.dec.string) = (IF cv.isDoubleNull THEN cv.pos \div 2 ELSE cv.pos)

\* double-byte mode: in 'a' 00 00 'a' 00 the pair of zero bytes starts at an odd
\* index and the last byte is a lone zero, so no terminator is found
C30_Witness ==
  /\ cv.fn = "CString" /\ cv.stage = "decoded" /\ cv.isDoubleNull
  /\ cv.arg = <<97, 0, 0, 97, 0>>
  /\ cv.pos = -1 /\ ~cv.dec.ok

\* double-byte mode: the first pair of zero bytes at an even index is found
C30_WitnessFound ==
  /\ cv.fn = "CString" /\ cv.stage = "decoded" /\ cv.isDoubleNull
  /\ cv.arg = <<0, 97, 0, 0, 0>>
  /\ cv.pos = 2 /\ cv.dec.ok /\ cv.dec.string = <<97>>

============================================================================
